---- MODULE Spec2Model ----
(***************************************************************************)
(* A model of lvcheck's leverage calculator, src/lib/calculator.ts         *)
(* (lines 1-185 of src/src/lib/calculator.ts).                             *)
(*                                                                         *)
(* JavaScript numbers are IEEE-754 doubles.  A value of type               *)
(* `number | undefined` is modelled as a record                            *)
(*     [k, s, m, e]                                                        *)
(* with k the kind ("undef", "nan", "inf", "fin"), s the sign (-1, 0, 1)   *)
(* and, for a finite value, the magnitude m * 2^e with m an odd natural    *)
(* number of at most 53 bits (zero has no bits and e = 0), so equal numbers  *)
(* have equal records.  Every arithmetic result is the double nearest to   *)
(* the exact result, ties to even: on 53 bits of mantissa, on multiples of *)
(* 2^-1074 below 2^-1022 (which makes it 0 below 2^-1075), and Infinity    *)
(* from 2^1024 - 2^970 on.  -0 is not distinguished from 0.                *)
(***************************************************************************)
EXTENDS Integers, Sequences, FiniteSets, TLC

VARIABLES inputs, result, locals, pc, callers, heap, page

vars == <<inputs, result, locals, pc, callers, heap, page>>

----------------------------------------------------------------------------
(* Bounds of the model. *)

\* ordinary prices are 50 * 2^i for i in 0..MaxStep
MaxStep == 2
\* number of callers holding results in SpecCalls
MaxCallers == 2
\* number of calls of a run of SpecCalls
MaxCalls == 3

----------------------------------------------------------------------------
(* Natural numbers of any size.  TLC's integers have 32 bits and the       *)
(* mantissa of a double has 53, so a natural number is the sequence of its *)
(* digits in base 2^15, lowest first, without zero digits at the top       *)
(* (zero is the empty sequence).                                           *)

LimbBits == 15
LimbBase == 32768

\* 2^k for k <= 30 (1 for k <= 0)
Pow2(k) ==
    IF k <= 0 THEN 1
    ELSE <<2, 4, 8, 16, 32, 64, 128, 256, 512, 1024, 2048, 4096, 8192, 16384,
           32768, 65536, 131072, 262144, 524288, 1048576, 2097152, 4194304,
           8388608, 16777216, 33554432, 67108864, 134217728, 268435456,
           536870912, 1073741824>>[k]

\* the number of factors 2 of n > 0
RECURSIVE TwoPart(_)
TwoPart(n) == IF n % 2 = 1 THEN 0 ELSE 1 + TwoPart(n \div 2)

\* the number of bits of n >= 0
RECURSIVE BitLen(_)
BitLen(n) == IF n = 0 THEN 0 ELSE 1 + BitLen(n \div 2)

Min(x, y) == IF x < y THEN x ELSE y
Max(x, y) == IF x > y THEN x ELSE y

RECURSIVE BigOfInt(_)
BigOfInt(i) ==
    IF i = 0 THEN <<>> ELSE <<i % LimbBase>> \o BigOfInt(i \div LimbBase)

\* the digit at place i, 0 above the top
Limb(a, i) == IF i \in DOMAIN a THEN a[i] ELSE 0

\* the highest place of the set places, 0 when it is empty
TopPlace(places) ==
    IF places = {} THEN 0 ELSE CHOOSE i \in places : \A j \in places : j <= i

\* a without the zero digits at its top
BigTrim(a) == SubSeq(a, 1, TopPlace({i \in DOMAIN a : a[i] # 0}))

\* a times LimbBase^k
ShiftLimbs(a, k) == IF a = <<>> THEN a ELSE [i \in 1..k |-> 0] \o a

\* -1, 0 or 1 as a < b, a = b or a > b, for a and b of one length whose
\* highest differing digits are at place i (0: they do not differ)
BigCmpAt(a, b, i) == IF i = 0 THEN 0 ELSE IF a[i] < b[i] THEN -1 ELSE 1

\* -1, 0 or 1 as a < b, a = b or a > b
BigCmp(a, b) ==
    IF Len(a) < Len(b) THEN -1
    ELSE IF Len(a) > Len(b) THEN 1
    ELSE BigCmpAt(a, b, TopPlace({i \in DOMAIN a : a[i] # b[i]}))

\* the carry into place i of the number whose digit sums are x, with the
\* carry first into place 1: a place below i gives a carry, and every place
\* between passes it on
CarryInto(x, i, first) ==
    \E j \in 0..(i - 1) :
        /\ IF j = 0 THEN first = 1 ELSE x[j] >= LimbBase
        /\ \A k \in (j + 1)..(i - 1) : x[k] = LimbBase - 1

\* the digits of the number whose digit sums are x, each below
\* 2 * LimbBase - 1; a carry out of the top place is dropped
AddDigits(x, first) ==
    [i \in DOMAIN x |->
        (x[i] + (IF CarryInto(x, i, first) THEN 1 ELSE 0)) % LimbBase]

\* a + b
BigAdd(a, b) ==
    BigTrim(AddDigits([i \in 1..(Max(Len(a), Len(b)) + 1) |->
                          Limb(a, i) + Limb(b, i)], 0))

\* a - b for a >= b: a plus the complement of b plus 1, less the carry out
BigSub(a, b) ==
    BigTrim(AddDigits([i \in DOMAIN a |-> a[i] + LimbBase - 1 - Limb(b, i)], 1))

\* a times a digit: the low halves of the products of the digits plus the
\* high halves one place up
BigMulSmall(a, digit) ==
    IF digit = 0 THEN <<>>
    ELSE IF digit = 1 THEN a
    ELSE BigAdd([i \in DOMAIN a |-> (a[i] * digit) % LimbBase],
                <<0>> \o [i \in DOMAIN a |-> (a[i] * digit) \div LimbBase])

\* a times the digits of b at the places from..to, in their places, by
\* halves
RECURSIVE BigMulFrom(_, _, _, _)
BigMulFrom(a, b, from, to) ==
    IF from = to THEN ShiftLimbs(BigMulSmall(a, b[from]), from - 1)
    ELSE BigAdd(BigMulFrom(a, b, from, (from + to) \div 2),
                BigMulFrom(a, b, (from + to) \div 2 + 1, to))

\* a * b, digit by digit of the shorter factor
BigMul(a, b) ==
    IF a = <<>> \/ b = <<>> THEN <<>>
    ELSE IF Len(a) < Len(b) THEN BigMulFrom(b, a, 1, Len(a))
    ELSE BigMulFrom(a, b, 1, Len(b))

\* the number of bits of a
BigBitLen(a) ==
    IF a = <<>> THEN 0 ELSE (Len(a) - 1) * LimbBits + BitLen(a[Len(a)])

\* a * 2^k
BigShl(a, k) ==
    ShiftLimbs(BigMulSmall(a, Pow2(k % LimbBits)), k \div LimbBits)

\* a with its lowest k digits dropped
DropLimbs(a, k) == IF k >= Len(a) THEN <<>> ELSE SubSeq(a, k + 1, Len(a))

\* floor(a / 2^r) for r < LimbBits
ShrBits(a, r) ==
    IF r = 0 THEN a
    ELSE BigTrim([i \in 1..Len(a) |->
             (a[i] \div Pow2(r)) + (Limb(a, i + 1) % Pow2(r)) * Pow2(LimbBits - r)])

\* floor(a / 2^k)
BigShr(a, k) == ShrBits(DropLimbs(a, k \div LimbBits), k % LimbBits)

\* bit i of a, the lowest bit being bit 0
Bit(a, i) == (Limb(a, i \div LimbBits + 1) \div Pow2(i % LimbBits)) % 2

\* one of the lowest k bits of a is set
AnyLowBits(a, k) ==
    \/ \E j \in 1..Min(k \div LimbBits, Len(a)) : a[j] # 0
    \/ Limb(a, k \div LimbBits + 1) % Pow2(k % LimbBits) # 0

\* the number of zero bits below the lowest set bit of a # 0, from place i
RECURSIVE BigTwoPart(_, _)
BigTwoPart(a, i) ==
    IF a[i] = 0 THEN LimbBits + BigTwoPart(a, i + 1) ELSE TwoPart(a[i])

\* q + 1 when the dropped bits are more than a half, or a half and q is odd
RoundUp(q, half, rest) ==
    IF half = 1 /\ (rest \/ Limb(q, 1) % 2 = 1) THEN BigAdd(q, <<1>>) ELSE q

\* a / 2^k (k >= 1) to the nearest integer, ties to even; sticky says that
\* the number rounded is a little more than a
RoundShift(a, k, sticky) ==
    RoundUp(BigShr(a, k), Bit(a, k - 1), sticky \/ AnyLowBits(a, k - 1))

\* r * LimbBase + digit
PushLimb(r, digit) ==
    IF r = <<>> THEN (IF digit = 0 THEN <<>> ELSE <<digit>>) ELSE <<digit>> \o r

\* an estimate, never too small and at most 2 too large, of floor(r / b)
\* for r < b * LimbBase and a b whose top digit is LimbBase / 2 or more
Estimate(r, b) ==
    Min(LimbBase - 1,
        (Limb(r, Len(b) + 1) * LimbBase + Limb(r, Len(b))) \div b[Len(b)])

RECURSIVE DivLoop(_, _, _, _, _)
RECURSIVE DivFix(_, _, _, _, _, _)
DivTry(a, b, i, r, q, digit, t) ==
    IF BigCmp(t, r) = 1 THEN DivFix(a, b, i, r, q, digit - 1)
    ELSE DivLoop(a, b, i - 1, BigSub(r, t), PushLimb(q, digit))

DivFix(a, b, i, r, q, digit) == DivTry(a, b, i, r, q, digit, BigMulSmall(b, digit))

DivDigit(a, b, i, r, q) == DivFix(a, b, i, r, q, Estimate(r, b))

\* long division of a by b, from the digit of a at place i down: q is the
\* quotient so far and r the remainder so far
DivLoop(a, b, i, r, q) ==
    IF i = 0 THEN [q |-> q, r |-> r]
    ELSE DivDigit(a, b, i, PushLimb(r, a[i]), q)

\* quotient q and remainder r of a by a b whose top digit is LimbBase / 2 or
\* more: the top Len(b) - 1 digits of a are less than b and are the first
\* remainder
BigDivMod(a, b) ==
    IF Len(a) < Len(b) THEN [q |-> <<>>, r |-> a]
    ELSE DivLoop(a, b, Len(a) - Len(b) + 1,
                 BigTrim(SubSeq(a, Len(a) - Len(b) + 2, Len(a))), <<>>)

----------------------------------------------------------------------------
(* IEEE-754 doubles. *)

\* a double overflows to Infinity from 2^MaxExp on
MaxExp == 1024
\* the smallest normal double is 2^MinNormalExp
MinNormalExp == -1022
\* Number.MIN_VALUE, the smallest subnormal double, is 2^MinExp
MinExp == -1074
\* the mantissa of a double has MantBits bits
MantBits == 53
\* a - b is a when the lowest bit of a is 2^AbsorbGap times the top bit of b
\* or more: b is then less than half the distance from a to the next double
AbsorbGap == 120

Undef == [k |-> "undef", s |-> 0, m |-> <<>>, e |-> 0]
NaN == [k |-> "nan", s |-> 0, m |-> <<>>, e |-> 0]
Inf(s) == [k |-> "inf", s |-> s, m |-> <<>>, e |-> 0]
Zero == [k |-> "fin", s |-> 0, m |-> <<>>, e |-> 0]

Sign(i) == IF i > 0 THEN 1 ELSE IF i < 0 THEN -1 ELSE 0
AbsInt(i) == IF i < 0 THEN -i ELSE i

\* the record of s * m * 2^e, m # 0, with the tz zero bits at the bottom of
\* m moved into the exponent
CanonOdd(s, m, e, tz) ==
    [k |-> "fin", s |-> s, m |-> BigShr(m, tz), e |-> e + tz]

\* the double s * m * 2^e, for an m of at most MantBits bits whose lowest
\* bit is worth 2^MinExp or more
Canon(s, m, e) ==
    IF m = <<>> THEN Zero
    ELSE IF e + BigBitLen(m) > MaxExp THEN Inf(s)
    ELSE CanonOdd(s, m, e, BigTwoPart(m, 1))

\* the double nearest to s * m * 2^e (a little more when sticky), whose
\* lowest bit is worth 2^q
RoundAt(s, m, e, sticky, q) ==
    IF q <= e THEN Canon(s, m, e)
    ELSE Canon(s, RoundShift(m, q - e, sticky), q)

\* the double nearest to s * m * 2^e (a little more when sticky; m then has
\* more than MantBits + 1 bits): round to nearest, ties to even, on
\* MantBits bits, or on multiples of 2^MinExp below 2^MinNormalExp
Round(s, m, e, sticky) ==
    IF m = <<>> THEN Zero
    ELSE RoundAt(s, m, e, sticky, Max(e + BigBitLen(m) - MantBits, MinExp))

\* the double nearest to s * q * 2^e, or to a little more when the
\* remainder of the long division dm that gave q is not 0
RoundQuotient(s, dm, e) == Round(s, dm.q, e, dm.r # <<>>)

\* the double nearest to s * a/b * 2^e for a, b # 0: the quotient of a * 2^t
\* by b is taken on MantBits + 3 bits or more, both scaled to make the top
\* digit of b LimbBase / 2 or more
Quotient(s, a, b, e, t, norm) ==
    RoundQuotient(s, BigDivMod(BigShl(a, t + norm), BigShl(b, norm)), e - t)

\* the double nearest to s * a/b * 2^e, for natural numbers a, b # 0
BigToDouble(s, a, b, e) ==
    Quotient(s, a, b, e, Max(0, MantBits + 3 + BigBitLen(b) - BigBitLen(a)),
             LimbBits - BitLen(b[Len(b)]))

\* the double of s * n/d * 2^e, for integers n >= 0 and d > 0
ToDouble(s, n, d, e) ==
    IF n = 0 \/ s = 0 THEN Zero
    ELSE IF d = 1 THEN Round(s, BigOfInt(n), e, FALSE)
    ELSE BigToDouble(s, BigOfInt(n), BigOfInt(d), e)

\* the double of the integer i
Num(i) == ToDouble(Sign(i), AbsInt(i), 1, 0)
\* the double i * 2^e
Scaled(i, e) == ToDouble(Sign(i), AbsInt(i), 1, e)

IsNumber(a) == a.k # "undef"
IsNaN(a) == a.k \in {"nan", "undef"}
IsFinite(a) == a.k = "fin"
\* a JavaScript value is falsy when it is undefined, NaN or 0
Falsy(a) == a.k \in {"undef", "nan"} \/ (a.k = "fin" /\ a.s = 0)

\* the finite non-zero a is below 2^TopExp(a) and not below half of it
TopExp(a) == a.e + BigBitLen(a.m)

\* magnitude of a < magnitude of b, for finite non-zero a and b whose top
\* bits are worth the same, em the smaller of their exponents
MagLtAt(a, b, em) ==
    BigCmp(BigShl(a.m, a.e - em), BigShl(b.m, b.e - em)) = -1

\* magnitude of a < magnitude of b, for finite non-zero a and b
MagLt(a, b) ==
    IF TopExp(a) # TopExp(b) THEN TopExp(a) < TopExp(b)
    ELSE MagLtAt(a, b, Min(a.e, b.e))

\* a < b
Lt(a, b) ==
    IF IsNaN(a) \/ IsNaN(b) THEN FALSE
    ELSE IF a = b THEN FALSE
    ELSE IF a.k = "inf" THEN a.s < 0
    ELSE IF b.k = "inf" THEN b.s > 0
    ELSE IF a.s # b.s THEN a.s < b.s
    ELSE IF a.s > 0 THEN MagLt(a, b)
    ELSE MagLt(b, a)

\* a <= b, a > b, a >= b
Le(a, b) == ~IsNaN(a) /\ ~IsNaN(b) /\ (a = b \/ Lt(a, b))
Gt(a, b) == Lt(b, a)
Ge(a, b) == Le(b, a)

\* Math.abs(a)
Abs(a) ==
    IF IsNaN(a) THEN NaN
    ELSE IF a.s = 0 THEN a
    ELSE [a EXCEPT !.s = 1]

\* -a
Neg(a) == IF IsNaN(a) THEN NaN ELSE [a EXCEPT !.s = -a.s]

\* a * b for finite non-zero a and b
MulBy(a, b) == Round(a.s * b.s, BigMul(a.m, b.m), a.e + b.e, FALSE)

\* a * b
Mul(a, b) ==
    IF IsNaN(a) \/ IsNaN(b) THEN NaN
    ELSE IF a.k = "inf" \/ b.k = "inf"
         THEN IF a.s = 0 \/ b.s = 0 THEN NaN ELSE Inf(a.s * b.s)
    ELSE IF a.s = 0 \/ b.s = 0 THEN Zero
    ELSE MulBy(a, b)

\* a / b for finite non-zero a and b
DivBy(a, b) ==
    IF b.m = <<1>> THEN Round(a.s * b.s, a.m, a.e - b.e, FALSE)
    ELSE BigToDouble(a.s * b.s, a.m, b.m, a.e - b.e)

\* a / b
Div(a, b) ==
    IF IsNaN(a) \/ IsNaN(b) THEN NaN
    ELSE IF a.k = "inf"
         THEN IF b.k = "inf" THEN NaN
              ELSE Inf(IF b.s < 0 THEN -a.s ELSE a.s)
    ELSE IF b.k = "inf" THEN Zero
    ELSE IF b.s = 0 THEN (IF a.s = 0 THEN NaN ELSE Inf(a.s))
    ELSE IF a.s = 0 THEN Zero
    ELSE DivBy(a, b)

\* the double nearest to sa * x - sb * y, x and y # 0 in units of 2^em
SubBig(sa, x, sb, y, em, cmp) ==
    IF sa # sb THEN Round(sa, BigAdd(x, y), em, FALSE)
    ELSE IF cmp = 0 THEN Zero
    ELSE IF cmp = 1 THEN Round(sa, BigSub(x, y), em, FALSE)
    ELSE Round(-sa, BigSub(y, x), em, FALSE)

SubAligned(sa, x, sb, y, em) == SubBig(sa, x, sb, y, em, BigCmp(x, y))

\* a - b for finite non-zero a and b, em the smaller of their exponents
SubAt(a, b, em) ==
    SubAligned(a.s, BigShl(a.m, a.e - em), b.s, BigShl(b.m, b.e - em), em)

\* a - b
Sub(a, b) ==
    IF IsNaN(a) \/ IsNaN(b) THEN NaN
    ELSE IF a.k = "inf"
         THEN IF b.k = "inf" /\ b.s = a.s THEN NaN ELSE a
    ELSE IF b.k = "inf" THEN Inf(-b.s)
    ELSE IF b.s = 0 THEN a
    ELSE IF a.s = 0 THEN Neg(b)
    ELSE IF a.e - TopExp(b) >= AbsorbGap THEN a
    ELSE IF b.e - TopExp(a) >= AbsorbGap THEN Neg(b)
    ELSE SubAt(a, b, Min(a.e, b.e))

----------------------------------------------------------------------------
(* src/lib/calculator.ts *)

ExposureModes == {"margin", "position"}
RiskModes == {"amount", "percent"}

\* the MessageKey values calculateMetrics pushes
WarningCodes ==
    {"warning.stopEqualsEntry", "warning.invalidStop", "warning.percentPosition",
     "warning.invalidMargin", "warning.invalidLoss", "warning.invalidPosition",
     "warning.positionTooLarge", "warning.takeProfit"}

\* { ready: false, warnings }: every optional field is undefined
EarlyResult(warnings) ==
    [ready |-> FALSE, direction |-> "undefined",
     priceDelta |-> Undef, priceDeltaPct |-> Undef,
     theoreticalMaxLeverage |-> Undef, maxLeverage |-> Undef,
     maxPositionSize |-> Undef, requiredMargin |-> Undef,
     allowedLoss |-> Undef, riskPercentOfCapital |-> Undef,
     lossAtStop |-> Undef, riskRewardRatio |-> Undef,
     expectedProfit |-> Undef, expectedReturnPct |-> Undef,
     warnings |-> warnings]

toRatioFraction(value, total) ==
    IF Falsy(value) \/ Falsy(total) \/ total = Zero THEN Undef
    ELSE Div(value, total)

toRatio(value, total) ==
    IF Falsy(value) \/ Falsy(total) \/ total = Zero THEN Undef
    ELSE Mul(Div(value, total), Num(100))

isFinitePositiveOrZero(value) ==
    IsNumber(value) /\ IsFinite(value) /\ Ge(value, Zero)

isFinitePositive(value) ==
    IsNumber(value) /\ IsFinite(value) /\ Gt(value, Zero)

pricesValidEither(entryPrice, stopPrice) ==
    ~(~isFinitePositive(entryPrice) /\ ~isFinitePositive(stopPrice))

\* line 54: the price gate lets the call go on
pricesValid(entryPrice, stopPrice) ==
    ~(~isFinitePositive(entryPrice) \/ ~isFinitePositive(stopPrice))

stopEqualsEntryOrAbove(entryPrice, stopPrice) == Ge(stopPrice, entryPrice)

stopEqualsEntryNever(entryPrice, stopPrice) == FALSE

\* line 58
stopEqualsEntry(entryPrice, stopPrice) == entryPrice = stopPrice

directionOfSwapped(stop, entry) == IF Lt(entry, stop) THEN "Long" ELSE "Short"

\* line 66
directionOf(stop, entry) == IF Lt(stop, entry) THEN "Long" ELSE "Short"

priceDeltaOfFlushToZero(entry, stop) ==
    LET delta == Abs(Sub(entry, stop))
    IN  IF delta.k = "fin" /\ delta.s = 1
           /\ TopExp(delta) <= MinNormalExp
        THEN Zero
        ELSE delta

priceDeltaOfSigned(entry, stop) == Sub(entry, stop)

\* line 67
priceDeltaOf(entry, stop) == Abs(Sub(entry, stop))

\* line 68
priceDeltaPctOf(priceDelta, entry) == Mul(Div(priceDelta, entry), Num(100))

\* line 75
theoreticalMaxLeverageOf(entry, priceDelta) == Div(entry, priceDelta)

resolveAllowedLossAnyMode(riskMode, exposureMode, marginCapital, riskValue, warnings) ==
    IF riskMode = "amount"
    THEN [allowedLoss |-> IF isFinitePositive(riskValue) THEN riskValue ELSE Undef,
          warnings |-> warnings]
    ELSE [allowedLoss |->
              IF isFinitePositive(marginCapital) /\ isFinitePositive(riskValue)
              THEN Div(Mul(marginCapital, riskValue), Num(100))
              ELSE Undef,
          warnings |-> IF exposureMode = "margin" THEN warnings
                       ELSE Append(warnings, "warning.percentPosition")]

resolveAllowedLossSilent(riskMode, exposureMode, marginCapital, riskValue, warnings) ==
    IF riskMode = "amount"
    THEN [allowedLoss |-> IF isFinitePositive(riskValue) THEN riskValue ELSE Undef,
          warnings |-> warnings]
    ELSE [allowedLoss |->
              IF exposureMode = "margin" /\ isFinitePositive(marginCapital)
                 /\ isFinitePositive(riskValue)
              THEN Div(Mul(marginCapital, riskValue), Num(100))
              ELSE Undef,
          warnings |-> warnings]

\* lines 77-91: the local allowedLoss and the warnings pushed while resolving it
resolveAllowedLoss(riskMode, exposureMode, marginCapital, riskValue, warnings) ==
    IF riskMode = "amount"
    THEN [allowedLoss |-> IF isFinitePositive(riskValue) THEN riskValue ELSE Undef,
          warnings |-> warnings]
    ELSE IF exposureMode = "margin"
         THEN [allowedLoss |->
                   IF isFinitePositive(marginCapital) /\ isFinitePositive(riskValue)
                   THEN Div(Mul(marginCapital, riskValue), Num(100))
                   ELSE Undef,
               warnings |-> warnings]
         ELSE [allowedLoss |-> Undef,
               warnings |-> Append(warnings, "warning.percentPosition")]

partialResultReady(direction, priceDelta, priceDeltaPct, theoreticalMaxLeverage, warnings) ==
    [EarlyResult(warnings) EXCEPT
        !.ready = TRUE,
        !.direction = direction,
        !.priceDelta = priceDelta,
        !.priceDeltaPct = priceDeltaPct,
        !.theoreticalMaxLeverage = theoreticalMaxLeverage]

\* lines 93-100: the partial result, which shares the warnings array
partialResult(direction, priceDelta, priceDeltaPct, theoreticalMaxLeverage, warnings) ==
    [EarlyResult(warnings) EXCEPT
        !.direction = direction,
        !.priceDelta = priceDelta,
        !.priceDeltaPct = priceDeltaPct,
        !.theoreticalMaxLeverage = theoreticalMaxLeverage]

\* lines 121-123, with the locals profitDeltaRaw and expectedProfit
takeProfitFilled(res, profitDeltaRaw, expectedProfit, priceDelta, baseCapital) ==
    [res EXCEPT !.expectedProfit = expectedProfit,
                !.expectedReturnPct = toRatio(expectedProfit, baseCapital),
                !.riskRewardRatio = Div(profitDeltaRaw, priceDelta)]

\* lines 113-123, with the local profitDeltaRaw
takeProfitChecked(res, profitDeltaRaw, entry, priceDelta, baseNotional, baseCapital) ==
    IF ~IsFinite(profitDeltaRaw) \/ Le(profitDeltaRaw, Zero)
    THEN [res EXCEPT !.warnings = Append(@, "warning.takeProfit")]
    ELSE takeProfitFilled(res, profitDeltaRaw,
                          Mul(Div(profitDeltaRaw, entry), baseNotional),
                          priceDelta, baseCapital)

computeTakeProfitMetricsLongOnly(res, takeProfit, direction, entry, priceDelta, baseNotional, baseCapital) ==
    IF ~isFinitePositive(baseNotional) \/ Falsy(takeProfit) THEN res
    ELSE takeProfitChecked(res, Sub(takeProfit, entry),
                           entry, priceDelta, baseNotional, baseCapital)

computeTakeProfitMetricsUndefinedOnly(res, takeProfit, direction, entry, priceDelta, baseNotional, baseCapital) ==
    IF ~isFinitePositive(baseNotional) \/ ~IsNumber(takeProfit) THEN res
    ELSE takeProfitChecked(res,
                           IF direction = "Long" THEN Sub(takeProfit, entry)
                           ELSE Sub(entry, takeProfit),
                           entry, priceDelta, baseNotional, baseCapital)

\* lines 102-124: the result after the take-profit helper has run on it
computeTakeProfitMetrics(res, takeProfit, direction, entry, priceDelta, baseNotional, baseCapital) ==
    IF ~isFinitePositive(baseNotional) \/ Falsy(takeProfit) THEN res
    ELSE takeProfitChecked(res,
                           IF direction = "Long" THEN Sub(takeProfit, entry)
                           ELSE Sub(entry, takeProfit),
                           entry, priceDelta, baseNotional, baseCapital)

marginMaxLeverageSwapped(allowedLoss, entry, marginCapital, priceDelta) ==
    Div(Mul(marginCapital, entry), Mul(allowedLoss, priceDelta))

marginMaxLeverageNoCapital(allowedLoss, entry, marginCapital, priceDelta) ==
    Div(Mul(allowedLoss, entry), priceDelta)

\* line 139
marginMaxLeverage(allowedLoss, entry, marginCapital, priceDelta) ==
    Div(Mul(allowedLoss, entry), Mul(marginCapital, priceDelta))

\* line 148
marginReady(maxLeverage) == IsFinite(maxLeverage) /\ Gt(maxLeverage, Zero)

\* lines 142-150, with the locals maxLeverage and maxPositionSize
marginFilled(res, in, allowedLoss, direction, entry, priceDelta, maxLeverage, maxPositionSize) ==
    computeTakeProfitMetrics(
        [res EXCEPT
            !.maxLeverage = maxLeverage,
            !.maxPositionSize = maxPositionSize,
            !.allowedLoss = allowedLoss,
            !.riskPercentOfCapital = toRatio(allowedLoss, in.marginCapital),
            !.lossAtStop = Mul(Div(priceDelta, entry), maxPositionSize),
            !.requiredMargin = in.marginCapital,
            !.ready = marginReady(maxLeverage)],
        in.takeProfit, direction, entry, priceDelta, maxPositionSize,
        in.marginCapital)

marginLeveragedTheoretical(res, in, allowedLoss, direction, entry, priceDelta, maxLeverage) ==
    marginFilled(res, in, allowedLoss, direction, entry, priceDelta, maxLeverage,
                 Mul(in.marginCapital, Div(entry, priceDelta)))

\* lines 140-150, with the local maxLeverage
marginLeveraged(res, in, allowedLoss, direction, entry, priceDelta, maxLeverage) ==
    marginFilled(res, in, allowedLoss, direction, entry, priceDelta, maxLeverage,
                 Mul(in.marginCapital, maxLeverage))

marginBranchInvertedLength(res, in, allowedLoss, direction, entry, priceDelta) ==
    IF ~isFinitePositive(in.marginCapital)
    THEN [result |-> IF Len(res.warnings) # 0
                     THEN [res EXCEPT !.warnings = Append(@, "warning.invalidMargin")]
                     ELSE res,
          exit |-> 131]
    ELSE IF ~isFinitePositive(allowedLoss)
    THEN [result |-> [res EXCEPT !.warnings = Append(@, "warning.invalidLoss")],
          exit |-> 136]
    ELSE [result |-> marginLeveraged(res, in, allowedLoss, direction, entry,
                         priceDelta,
                         marginMaxLeverage(allowedLoss, entry, in.marginCapital,
                                           priceDelta)),
          exit |-> 151]

marginBranchBothGuards(res, in, allowedLoss, direction, entry, priceDelta) ==
    IF ~isFinitePositive(in.marginCapital) /\ isFinitePositive(allowedLoss)
    THEN [result |-> IF Len(res.warnings) = 0
                     THEN [res EXCEPT !.warnings = Append(@, "warning.invalidMargin")]
                     ELSE res,
          exit |-> 131]
    ELSE IF ~isFinitePositive(allowedLoss)
    THEN [result |-> [res EXCEPT !.warnings =
                         IF isFinitePositive(in.marginCapital)
                         THEN Append(@, "warning.invalidLoss")
                         ELSE Append(Append(@, "warning.invalidMargin"),
                                     "warning.invalidLoss")],
          exit |-> 136]
    ELSE [result |-> marginLeveraged(res, in, allowedLoss, direction, entry,
                         priceDelta,
                         marginMaxLeverage(allowedLoss, entry, in.marginCapital,
                                           priceDelta)),
          exit |-> 151]

marginBranchLossFirst(res, in, allowedLoss, direction, entry, priceDelta) ==
    IF ~isFinitePositive(allowedLoss)
    THEN [result |-> [res EXCEPT !.warnings = Append(@, "warning.invalidLoss")],
          exit |-> 136]
    ELSE IF ~isFinitePositive(in.marginCapital)
    THEN [result |-> IF Len(res.warnings) = 0
                     THEN [res EXCEPT !.warnings = Append(@, "warning.invalidMargin")]
                     ELSE res,
          exit |-> 131]
    ELSE [result |-> marginLeveraged(res, in, allowedLoss, direction, entry,
                         priceDelta,
                         marginMaxLeverage(allowedLoss, entry, in.marginCapital,
                                           priceDelta)),
          exit |-> 151]

\* lines 126-152: the margin branch; exit is the line of the return taken
marginBranch(res, in, allowedLoss, direction, entry, priceDelta) ==
    IF ~isFinitePositive(in.marginCapital)
    THEN [result |-> IF Len(res.warnings) = 0
                     THEN [res EXCEPT !.warnings = Append(@, "warning.invalidMargin")]
                     ELSE res,
          exit |-> 131]
    ELSE IF ~isFinitePositive(allowedLoss)
    THEN [result |-> [res EXCEPT !.warnings = Append(@, "warning.invalidLoss")],
          exit |-> 136]
    ELSE [result |-> marginLeveraged(res, in, allowedLoss, direction, entry,
                         priceDelta,
                         marginMaxLeverage(allowedLoss, entry, in.marginCapital,
                                           priceDelta)),
          exit |-> 151]

\* line 164
positionLossAtStop(priceDelta, entry, positionSize) ==
    Mul(Div(priceDelta, entry), positionSize)

positionMaxLeverageInverted(entry, priceDelta) == Div(priceDelta, entry)

\* line 173
positionMaxLeverage(entry, priceDelta) == Div(entry, priceDelta)

positionReadyInverted(allowedLoss, lossAtStop, maxLeverage) ==
    Le(allowedLoss, lossAtStop) /\ IsFinite(maxLeverage)

positionReadyStrict(allowedLoss, lossAtStop, maxLeverage) ==
    Gt(allowedLoss, lossAtStop) /\ IsFinite(maxLeverage)

positionReadyIgnoresLoss(allowedLoss, lossAtStop, maxLeverage) ==
    IsFinite(maxLeverage)

\* line 180
positionReady(allowedLoss, lossAtStop, maxLeverage) ==
    Ge(allowedLoss, lossAtStop) /\ IsFinite(maxLeverage)

positionSizedMarginBases(res, in, allowedLoss, direction, entry, priceDelta, lossAtStop, maxLeverage) ==
    computeTakeProfitMetrics(
        [res EXCEPT
            !.lossAtStop = lossAtStop,
            !.warnings = IF Lt(allowedLoss, lossAtStop)
                         THEN Append(@, "warning.positionTooLarge")
                         ELSE @,
            !.maxLeverage = maxLeverage,
            !.allowedLoss = allowedLoss,
            !.requiredMargin = lossAtStop,
            !.maxPositionSize = Div(Mul(allowedLoss, entry), priceDelta),
            !.riskPercentOfCapital = toRatio(allowedLoss, lossAtStop),
            !.ready = positionReady(allowedLoss, lossAtStop, maxLeverage)],
        in.takeProfit, direction, entry, priceDelta,
        Div(Mul(allowedLoss, entry), priceDelta), lossAtStop)

positionSizedStopsWhenTooLarge(res, in, allowedLoss, direction, entry, priceDelta, lossAtStop, maxLeverage) ==
    IF Lt(allowedLoss, lossAtStop)
    THEN [res EXCEPT !.lossAtStop = lossAtStop,
                     !.warnings = Append(@, "warning.positionTooLarge")]
    ELSE computeTakeProfitMetrics(
             [res EXCEPT
                 !.lossAtStop = lossAtStop,
                 !.maxLeverage = maxLeverage,
                 !.allowedLoss = allowedLoss,
                 !.requiredMargin = lossAtStop,
                 !.maxPositionSize = Div(Mul(allowedLoss, entry), priceDelta),
                 !.riskPercentOfCapital = toRatio(allowedLoss, lossAtStop),
                 !.ready = positionReady(allowedLoss, lossAtStop, maxLeverage)],
             in.takeProfit, direction, entry, priceDelta, in.positionSize,
             lossAtStop)

\* lines 165-182, with the locals lossAtStop (which requiredMargin equals,
\* line 172) and maxLeverage
positionSized(res, in, allowedLoss, direction, entry, priceDelta, lossAtStop, maxLeverage) ==
    computeTakeProfitMetrics(
        [res EXCEPT
            !.lossAtStop = lossAtStop,
            !.warnings = IF Lt(allowedLoss, lossAtStop)
                         THEN Append(@, "warning.positionTooLarge")
                         ELSE @,
            !.maxLeverage = maxLeverage,
            !.allowedLoss = allowedLoss,
            !.requiredMargin = lossAtStop,
            !.maxPositionSize = Div(Mul(allowedLoss, entry), priceDelta),
            !.riskPercentOfCapital = toRatio(allowedLoss, lossAtStop),
            !.ready = positionReady(allowedLoss, lossAtStop, maxLeverage)],
        in.takeProfit, direction, entry, priceDelta, in.positionSize, lossAtStop)

positionBranchNoLossReturn(res, in, allowedLoss, direction, entry, priceDelta) ==
    IF ~isFinitePositive(in.positionSize)
    THEN [result |-> [res EXCEPT !.warnings = Append(@, "warning.invalidPosition")],
          exit |-> 156]
    ELSE [result |-> positionSized(
                         IF ~isFinitePositive(allowedLoss)
                         THEN [res EXCEPT !.warnings = Append(@, "warning.invalidLoss")]
                         ELSE res,
                         in, allowedLoss, direction, entry, priceDelta,
                         positionLossAtStop(priceDelta, entry, in.positionSize),
                         positionMaxLeverage(entry, priceDelta)),
          exit |-> IF ~isFinitePositive(allowedLoss) THEN 161 ELSE 184]

positionBranchLossFirst(res, in, allowedLoss, direction, entry, priceDelta) ==
    IF ~isFinitePositive(allowedLoss)
    THEN [result |-> [res EXCEPT !.warnings = Append(@, "warning.invalidLoss")],
          exit |-> 161]
    ELSE IF ~isFinitePositive(in.positionSize)
    THEN [result |-> [res EXCEPT !.warnings = Append(@, "warning.invalidPosition")],
          exit |-> 156]
    ELSE [result |-> positionSized(res, in, allowedLoss, direction, entry,
                         priceDelta,
                         positionLossAtStop(priceDelta, entry, in.positionSize),
                         positionMaxLeverage(entry, priceDelta)),
          exit |-> 184]

\* lines 154-184: the position branch; exit is the line of the return taken
positionBranch(res, in, allowedLoss, direction, entry, priceDelta) ==
    IF ~isFinitePositive(in.positionSize)
    THEN [result |-> [res EXCEPT !.warnings = Append(@, "warning.invalidPosition")],
          exit |-> 156]
    ELSE IF ~isFinitePositive(allowedLoss)
    THEN [result |-> [res EXCEPT !.warnings = Append(@, "warning.invalidLoss")],
          exit |-> 161]
    ELSE [result |-> positionSized(res, in, allowedLoss, direction, entry,
                         priceDelta,
                         positionLossAtStop(priceDelta, entry, in.positionSize),
                         positionMaxLeverage(entry, priceDelta)),
          exit |-> 184]

\* lines 126-184: the two branches, with the outcome of lines 77-91
runBranch(in, res, allowedLoss, direction, priceDelta) ==
    IF in.exposureMode = "margin"
    THEN marginBranch(res, in, allowedLoss, direction, in.entryPrice, priceDelta)
    ELSE positionBranch(res, in, allowedLoss, direction, in.entryPrice, priceDelta)

\* what a call returns: the result, the local allowedLoss and the line of
\* the return taken
returned(branch, allowedLoss) ==
    [result |-> branch.result, allowedLoss |-> allowedLoss, exit |-> branch.exit]

\* lines 77-184, with resolved the outcome of lines 77-91
runResolved(in, resolved, direction, priceDelta) ==
    returned(runBranch(in,
                 partialResult(direction, priceDelta,
                     priceDeltaPctOf(priceDelta, in.entryPrice),
                     theoreticalMaxLeverageOf(in.entryPrice, priceDelta),
                     resolved.warnings),
                 resolved.allowedLoss, direction, priceDelta),
             resolved.allowedLoss)

\* lines 70-184, with the locals direction and priceDelta
runPriced(in, warnings, direction, priceDelta) ==
    IF priceDelta = Zero
    THEN [result |-> EarlyResult(Append(warnings, "warning.invalidStop")),
          allowedLoss |-> Undef, exit |-> 72]
    ELSE runResolved(in,
             resolveAllowedLoss(in.riskMode, in.exposureMode, in.marginCapital,
                                in.riskValue, warnings),
             direction, priceDelta)

\* lines 41-185: one call, on the warnings array that line 42 made (warnings
\* is what that array holds when the call starts); result is the value
\* returned, allowedLoss the local of that name when the call returns and
\* exit the line of the return taken
runCalculateMetricsOn(in, warnings) ==
    IF ~pricesValid(in.entryPrice, in.stopPrice)
    THEN [result |-> EarlyResult(warnings), allowedLoss |-> Undef, exit |-> 55]
    ELSE IF stopEqualsEntry(in.entryPrice, in.stopPrice)
    THEN [result |-> EarlyResult(Append(warnings, "warning.stopEqualsEntry")),
          allowedLoss |-> Undef, exit |-> 60]
    ELSE runPriced(in, warnings, directionOf(in.stopPrice, in.entryPrice),
                   priceDeltaOf(in.entryPrice, in.stopPrice))

\* line 42: the array a call makes is empty
runCalculateMetrics(in) == runCalculateMetricsOn(in, <<>>)

sharedWarnings(h) == 1

\* line 42: `const warnings = []` makes a new array in the heap h at every call
allocWarnings(h) == Len(h) + 1

calculateMetrics(in) == runCalculateMetrics(in).result

----------------------------------------------------------------------------
(* The inputs of the model. *)

\* Number.MIN_VALUE
MinValue == Scaled(1, MinExp)
\* 2^1023, the largest power of two that is a double
Huge == Scaled(1, MaxExp - 1)
\* 2 * Number.MIN_VALUE, the double next to Number.MIN_VALUE
TwoMinValue == Scaled(1, MinExp + 1)

OrdinaryPrices == {Scaled(25, i + 1) : i \in 0..MaxStep}

EntryValues ==
    {Undef, NaN, Inf(1), Zero, Num(-100), Num(63250), MinValue, Huge}
        \cup OrdinaryPrices
StopValues ==
    {Undef, Zero, Num(-100), Num(61800), MinValue, TwoMinValue, Huge}
        \cup OrdinaryPrices
TakeProfitValues == {Undef, Zero, Inf(1), Num(75), Num(200)}
MarginValues == {Undef, Zero, Num(-5), Num(5000), MinValue, Huge}
PositionValues == {Undef, Zero, Num(600), Num(25000), MinValue}
RiskValues == {Undef, Zero, NaN, Num(2), Num(300), Num(5000), MinValue}

\* the margin branch does not read positionSize
MarginInputs ==
    [entryPrice : EntryValues, stopPrice : StopValues,
     takeProfit : TakeProfitValues, exposureMode : {"margin"},
     marginCapital : MarginValues, positionSize : {Undef, Num(600)},
     riskMode : RiskModes, riskValue : RiskValues]

\* the position branch does not read marginCapital
PositionInputs ==
    [entryPrice : EntryValues, stopPrice : StopValues,
     takeProfit : TakeProfitValues, exposureMode : {"position"},
     marginCapital : {Undef, Num(5000)}, positionSize : PositionValues,
     riskMode : RiskModes, riskValue : RiskValues]

\* inputs whose quotients are rounded: a Short from 3 with the stop at 10 or
\* 17, where priceDelta / entryPrice is 7/3 or 14/3 (in doubles 7/3 * 27
\* is above 63, 7/3 * 51 above 119 and 14/3 * 27 above 126)
RoundedInputs ==
    [entryPrice : {Num(3)}, stopPrice : {Num(10), Num(17)},
     takeProfit : {Undef, Num(1), Num(75)}, exposureMode : ExposureModes,
     marginCapital : {Num(63)}, positionSize : {Num(27), Num(51)},
     riskMode : RiskModes, riskValue : {Num(63), Num(119), Num(126)}]

\* k tenths as a decimal literal gives them: the double nearest to k / 10
Tenths(k) == ToDouble(1, k, 10, 0)

\* inputs whose products are rounded: a Short from 0.1 with a margin of 0.1
\* or 1.7 and a risk of 0.1, of 100 percent or of just over 100 percent (with
\* the stop at 0.6 and allowedLoss = marginCapital = 0.1, the product 0.1 *
\* 0.1 is rounded up and maxLeverage is the double above 0.1 / 0.5); just
\* over 100 is 100.00000000000001, the double next above 100
DecimalInputs ==
    [entryPrice : {Tenths(1)}, stopPrice : {Tenths(4), Tenths(6)},
     takeProfit : {Undef, Tenths(3)}, exposureMode : ExposureModes,
     marginCapital : {Tenths(1), Tenths(17)}, positionSize : {Tenths(1)},
     riskMode : RiskModes, riskValue : {Tenths(1), Num(100),
                                    Sub(Num(100), Neg(Scaled(1, -46)))}]

\* a Long from 63250 with the stop at 61800 and the take-profit at 66000,
\* where expectedReturnPct and 100 * riskRewardRatio are rounded differently
TargetInputs ==
    [entryPrice : {Num(63250)}, stopPrice : {Num(61800)},
     takeProfit : {Num(66000)}, exposureMode : ExposureModes,
     marginCapital : {Num(5000)}, positionSize : {Num(25000)},
     riskMode : RiskModes, riskValue : {Num(2), Num(300)}]

\* the inputs of the calls; the last set is a Short from 100 or from 2^1023
\* with the stop at 1.5 * 2^1023 and a negative takeProfit, where
\* 2^1023 - (-2^1023) overflows to Infinity
InputSet ==
    MarginInputs \cup PositionInputs \cup RoundedInputs \cup DecimalInputs
        \cup TargetInputs
        \cup [entryPrice : {Num(100), Huge}, stopPrice : {Scaled(3, MaxExp - 2)},
              takeProfit : {Num(-75), Neg(Huge)}, exposureMode : ExposureModes,
              marginCapital : {Num(5000)}, positionSize : {Num(600)},
              riskMode : RiskModes, riskValue : {Num(2), Num(300)}]

NoResult == [EarlyResult(<<>>) EXCEPT !.direction = "none"]
NoLocals == [allowedLoss |-> Undef, exit |-> 0]
\* no page is mounted
NoPage == [mounted |-> FALSE]

----------------------------------------------------------------------------
(* Spec: one call of calculateMetrics on every input of InputSet. *)

Init ==
    /\ inputs \in InputSet
    /\ result = NoResult
    /\ locals = NoLocals
    /\ pc = "idle"
    /\ callers = <<>>
    /\ heap = <<>>
    /\ page = NoPage

\* the caller takes what the call returned
Return(run) ==
    /\ result' = run.result
    /\ locals' = [allowedLoss |-> run.allowedLoss, exit |-> run.exit]

Calculate ==
    /\ pc = "idle"
    /\ Return(runCalculateMetrics(inputs))
    /\ pc' = "returned"
    /\ UNCHANGED <<inputs, callers, heap, page>>

Next == Calculate

Spec == Init /\ [][Next]_vars

----------------------------------------------------------------------------
(* SpecCalls: callers call calculateMetrics one after the other (a call is  *)
(* synchronous, so calls interleave as wholes) and keep what it returned.   *)
(* heap holds the warnings arrays the calls made; a result refers to its    *)
(* array by its place in heap.                                              *)

Callers == 1..MaxCallers

NoInputs ==
    [entryPrice |-> Undef, stopPrice |-> Undef, takeProfit |-> Undef,
     exposureMode |-> "margin", marginCapital |-> Undef,
     positionSize |-> Undef, riskMode |-> "amount", riskValue |-> Undef]

ValidMarginInputs ==
    [NoInputs EXCEPT !.entryPrice = Num(100), !.stopPrice = Num(50),
                     !.marginCapital = Num(5000), !.riskValue = Num(300)]

CallInputs ==
    { NoInputs,
      [ValidMarginInputs EXCEPT !.stopPrice = Num(100)],
      [ValidMarginInputs EXCEPT !.marginCapital = Undef],
      [ValidMarginInputs EXCEPT !.exposureMode = "position",
                                !.positionSize = Num(600),
                                !.riskMode = "percent"],
      [ValidMarginInputs EXCEPT !.takeProfit = Num(75)] }

NotHeld == [held |-> FALSE, inputs |-> NoInputs,
            result |-> [NoResult EXCEPT !.warnings = 0]]

InitCalls ==
    /\ inputs = NoInputs
    /\ result = NoResult
    /\ locals = NoLocals
    /\ pc = "idle"
    /\ callers = [c \in Callers |-> NotHeld]
    /\ heap = <<>>
    /\ page = NoPage

\* what the array at place id holds when a call starts on it
Made(id) == IF id \in DOMAIN heap THEN heap[id] ELSE <<>>

\* caller c keeps the result res of a call on the array at place id
Keep(c, in, id, res) ==
    /\ heap' = IF id \in DOMAIN heap
               THEN [heap EXCEPT ![id] = res.warnings]
               ELSE Append(heap, res.warnings)
    /\ callers' = [callers EXCEPT ![c] =
           [held |-> TRUE, inputs |-> in,
            result |-> [res EXCEPT !.warnings = id]]]

Call(c, in) ==
    /\ Len(heap) < MaxCalls
    /\ Keep(c, in, allocWarnings(heap),
            runCalculateMetricsOn(in, Made(allocWarnings(heap))).result)
    /\ UNCHANGED <<inputs, result, locals, pc, page>>

NextCalls == \E c \in Callers, in \in CallInputs : Call(c, in)

SpecCalls == InitCalls /\ [][NextCalls]_vars

\* the result a caller holds, with the warnings its array holds now
Held(c) == [callers[c].result EXCEPT !.warnings = heap[callers[c].result.warnings]]

----------------------------------------------------------------------------
(* src/app/page.tsx: the calculator page Home, with the session of the      *)
(* SupabaseProvider around it.  The text of an input is the sequence of its *)
(* UTF-16 code units ("63250.1" is <<54, 51, 50, 53, 48, 46, 49>>).  page   *)
(* holds the state of the component that the save guard reads or writes,    *)
(* and the inserts into trade_entries that were issued and have not         *)
(* settled yet.                                                             *)

\* the behaviours checked have at most MaxPending inserts awaiting their
\* answer at once; the page has no such limit
MaxPending == 2

\* the value of the digit with the code unit c ("0" to "9" are 48 to 57, "a"
\* to "f" 97 to 102 and "A" to "F" 65 to 70), 16 for any other character
DigitOf(c) ==
    IF c \in 48..57 THEN c - 48
    ELSE IF c \in 97..102 THEN c - 87
    ELSE IF c \in 65..70 THEN c - 55
    ELSE 16

\* text is one digit or more of the radix
AreDigits(text, radix) ==
    text # <<>> /\ \A i \in DOMAIN text : DigitOf(text[i]) < radix

\* radix^k, by halves; up to radix^7 it is below 2^30
RECURSIVE BigPow(_, _)
BigPow(radix, k) ==
    IF k <= 7 THEN BigOfInt(radix ^ k)
    ELSE BigMul(BigPow(radix, k \div 2), BigPow(radix, k - k \div 2))

\* the number below 2^30 that at most seven digits write in the radix
RECURSIVE IntOfDigits(_, _)
IntOfDigits(digits, radix) ==
    IF digits = <<>> THEN 0
    ELSE radix * IntOfDigits(SubSeq(digits, 1, Len(digits) - 1), radix)
             + DigitOf(digits[Len(digits)])

\* the natural number that the digits write in the radix, by halves
RECURSIVE BigOfDigits(_, _)
BigOfDigits(digits, radix) ==
    IF Len(digits) <= 7 THEN BigOfInt(IntOfDigits(digits, radix))
    ELSE BigAdd(BigMul(BigOfDigits(SubSeq(digits, 1, Len(digits) \div 2),
                                   radix),
                       BigPow(radix, Len(digits) - Len(digits) \div 2)),
                BigOfDigits(SubSeq(digits, Len(digits) \div 2 + 1,
                                   Len(digits)), radix))

\* the value big of the digits of an exponent, cap when it is cap or more
ExponentValue(big, cap) ==
    IF BigCmp(big, BigOfInt(cap)) >= 0 THEN cap
    ELSE Limb(big, 1) + LimbBase * Limb(big, 2)
             + LimbBase * LimbBase * Limb(big, 3)

\* the double nearest to s * digits * 10^exp, for the digits # 0 of a
\* numeral of nd digits: 10^310 is above every double and 10^-331 below half
\* of Number.MIN_VALUE
DecimalDouble(s, digits, exp, nd) ==
    IF digits = <<>> THEN Zero
    ELSE IF exp > 309 THEN Inf(s)
    ELSE IF nd + exp < -330 THEN Zero
    ELSE IF exp >= 0 THEN Round(s, BigMul(digits, BigPow(10, exp)), 0, FALSE)
    ELSE BigToDouble(s, digits, BigPow(10, -exp), 0)

\* the place of the first character of text that is in chars, the place
\* after the end of text when there is none
IndexOf(text, chars) ==
    LET at == {i \in DOMAIN text : text[i] \in chars}
    IN  IF at = {} THEN Len(text) + 1
        ELSE CHOOSE i \in at : \A j \in at : i <= j

\* text without its sign "+" (43) or "-" (45), and the sign
Unsigned(text) ==
    IF text # <<>> /\ text[1] \in {43, 45} THEN Tail(text) ELSE text
SignOf(text) == IF text # <<>> /\ text[1] = 45 THEN -1 ELSE 1

\* the code units of Infinity
InfinityText == <<73, 110, 102, 105, 110, 105, 116, 121>>

\* the value of a decimal numeral with the digits int before the point and
\* frac after it, and the exponent expo if it has one: one digit at least in
\* int and frac together, one digit at least after the sign of an exponent.
\* An exponent of 400 more than the number of digits, or of more, gives what
\* that one gives: with digits # 0 the numeral is 10^400 at least, or below
\* 10^-400
StrDecimal(s, int, frac, hasExp, expo) ==
    IF ~AreDigits(int \o frac, 10) THEN NaN
    ELSE IF hasExp /\ ~AreDigits(Unsigned(expo), 10) THEN NaN
    ELSE DecimalDouble(s, BigOfDigits(int \o frac, 10),
                       SignOf(expo) * ExponentValue(BigOfDigits(Unsigned(expo), 10),
                                                    Len(int) + Len(frac) + 400)
                           - Len(frac),
                       Len(int) + Len(frac))

\* the same for the mantissa mant with its point, if any, at place ip
StrMantissa(s, mant, ip, hasExp, expo) ==
    StrDecimal(s, SubSeq(mant, 1, ip - 1), SubSeq(mant, ip + 1, Len(mant)),
               hasExp, expo)

\* the value of the unsigned decimal literal body, whose first "e" (101) or
\* "E" (69), if any, is at place ie: Infinity, or a decimal numeral with its
\* point "." (46)
StrUnsigned(s, body, ie) ==
    IF body = InfinityText THEN Inf(s)
    ELSE StrMantissa(s, SubSeq(body, 1, ie - 1),
                     IndexOf(SubSeq(body, 1, ie - 1), {46}),
                     ie <= Len(body), SubSeq(body, ie + 1, Len(body)))

\* the radix that the first two characters of a numeral announce: 16 for
\* 0x and 0X, 8 for 0o and 0O, 2 for 0b and 0B
RadixOf(text) ==
    IF Len(text) < 2 \/ text[1] # 48 THEN 10
    ELSE IF text[2] \in {120, 88} THEN 16
    ELSE IF text[2] \in {111, 79} THEN 8
    ELSE IF text[2] \in {98, 66} THEN 2
    ELSE 10

\* the value of a text without white space around it, in the radix its
\* first characters announce: 0 for the empty text, the integer of a
\* hexadecimal, octal or binary numeral (which has no sign), the value of a
\* signed decimal literal, NaN for any other text
StrNumeric(text, radix) ==
    IF text = <<>> THEN Zero
    ELSE IF radix # 10
    THEN (IF AreDigits(SubSeq(text, 3, Len(text)), radix)
          THEN Round(1, BigOfDigits(SubSeq(text, 3, Len(text)), radix),
                     0, FALSE)
          ELSE NaN)
    ELSE StrUnsigned(SignOf(text), Unsigned(text),
                     IndexOf(Unsigned(text), {101, 69}))

\* the code units of StrWhiteSpaceChar: the white space TAB, VT, FF, SP,
\* NBSP, U+1680, U+2000 to U+200A, U+202F, U+205F, U+3000 and U+FEFF, and
\* the line terminators LF, CR, U+2028 and U+2029
WhiteSpace ==
    {9, 10, 11, 12, 13, 32, 160, 5760, 8232, 8233, 8239, 8287, 12288, 65279}
        \cup 8192..8202

\* text without the white space at its ends
Trim(text) ==
    LET at == {i \in DOMAIN text : text[i] \notin WhiteSpace}
    IN  IF at = {} THEN <<>>
        ELSE SubSeq(text, CHOOSE i \in at : \A j \in at : i <= j, TopPlace(at))

\* Number(text): the value of the text as a StringNumericLiteral, rounded
\* to the nearest double, NaN when it is none
StringToNumber(text) == StrNumeric(Trim(text), RadixOf(Trim(text)))

\* Number.isFinite(parsed) ? parsed : undefined
finiteOrUndefined(parsed) == IF IsFinite(parsed) THEN parsed ELSE Undef

\* lines 51-56; raw.replace(/,/g, "") takes the commas (44) out
parseNumeric(raw) ==
    IF raw = <<>> THEN Undef
    ELSE finiteOrUndefined(StringToNumber(SelectSeq(raw, LAMBDA c : c # 44)))

\* the JavaScript null, among the values of the doubles
Null == [k |-> "null", s |-> 0, m |-> <<>>, e |-> 0]

\* value ?? null
orNull(value) == IF value = Undef THEN Null ELSE value

\* the state of Home after its first render, under a provider whose
\* session is present or not
FirstRender(session) ==
    [mounted |-> TRUE,
     entryInput |-> <<>>, stopInput |-> <<>>, takeProfitInput |-> <<>>,
     exposureMode |-> "margin", riskMode |-> "amount",
     marginInput |-> <<>>, positionInput |-> <<>>, riskInput |-> <<>>,
     session |-> session, saveState |-> "idle", requests |-> <<>>]

\* the argument of calculateMetrics in the useMemo of calculation
calculatorInputs(p) ==
    [entryPrice |-> parseNumeric(p.entryInput),
     stopPrice |-> parseNumeric(p.stopInput),
     takeProfit |-> parseNumeric(p.takeProfitInput),
     exposureMode |-> p.exposureMode,
     marginCapital |-> IF p.exposureMode = "margin"
                       THEN parseNumeric(p.marginInput) ELSE Undef,
     positionSize |-> IF p.exposureMode = "position"
                      THEN parseNumeric(p.positionInput) ELSE Undef,
     riskMode |-> p.riskMode,
     riskValue |-> parseNumeric(p.riskInput)]


\* the payload of the insert; user_id, exchange, symbol and notes are
\* state of the page that is not modelled
payload(p, calc, entryPrice, stopPrice) ==
    [direction |-> IF calc.direction # "undefined" THEN calc.direction
                   ELSE IF Lt(stopPrice, entryPrice) THEN "Long" ELSE "Short",
     entry_price |-> entryPrice,
     stop_price |-> stopPrice,
     take_profit |-> orNull(parseNumeric(p.takeProfitInput)),
     exposure_mode |-> p.exposureMode,
     risk_mode |-> p.riskMode,
     margin_capital |-> IF p.exposureMode = "margin"
                        THEN orNull(parseNumeric(p.marginInput)) ELSE Null,
     position_size |-> IF p.exposureMode = "position"
                       THEN orNull(parseNumeric(p.positionInput)) ELSE Null,
     risk_value |-> orNull(parseNumeric(p.riskInput)),
     price_delta |-> orNull(calc.priceDelta),
     price_delta_pct |-> orNull(calc.priceDeltaPct),
     theoretical_max_leverage |-> orNull(calc.theoreticalMaxLeverage),
     max_leverage |-> orNull(calc.maxLeverage),
     max_position_size |-> orNull(calc.maxPositionSize),
     allowed_loss |-> orNull(calc.allowedLoss),
     loss_at_stop |-> orNull(calc.lossAtStop),
     risk_percent_of_capital |-> orNull(calc.riskPercentOfCapital),
     risk_reward_ratio |-> orNull(calc.riskRewardRatio),
     expected_profit |-> orNull(calc.expectedProfit),
     expected_return_pct |-> orNull(calc.expectedReturnPct),
     exit_outcome |-> Null]

\* handleSaveTrade without its check of the calculation
saveTradeUnchecked(p, calc, entryPrice, stopPrice) ==
    IF ~p.session
    THEN [p EXCEPT !.saveState = "unauthenticated"]
    ELSE [p EXCEPT !.saveState = "saving",
                   !.requests = Append(@, payload(p, calc, entryPrice, stopPrice))]

\* lines 205-249: handleSaveTrade up to its await, in a render with the
\* state p, the calculation calc and the parsed prices
saveTrade(p, calc, entryPrice, stopPrice) ==
    IF ~p.session
    THEN [p EXCEPT !.saveState = "unauthenticated"]
    ELSE IF ~calc.ready \/ Falsy(entryPrice) \/ Falsy(stopPrice)
    THEN [p EXCEPT !.saveState = "error"]
    ELSE [p EXCEPT !.saveState = "saving",
                   !.requests = Append(@, payload(p, calc, entryPrice, stopPrice))]

\* the texts the inputs get: for the entry price 0 and the price text that
\* the fetch button got, 63250.10000000; for the stop price 61800 and -.5;
\* 66000.5 for the take-profit, 5,000 for the margin, 600 for the position,
\* 300 and Infinity for the risk
InputTexts ==
    [entry |-> {<<>>, <<48>>,
                <<54, 51, 50, 53, 48, 46, 49, 48, 48, 48, 48, 48, 48, 48>>},
     stop |-> {<<>>, <<54, 49, 56, 48, 48>>, <<45, 46, 53>>},
     takeProfit |-> {<<>>, <<54, 54, 48, 48, 48, 46, 53>>},
     margin |-> {<<>>, <<53, 44, 48, 48, 48>>},
     position |-> {<<>>, <<54, 48, 48>>},
     risk |-> {<<>>, <<51, 48, 48>>, InfinityText}]

\* lines 112-134: useMemo keeps the calculation of the inputs shown.  The
\* calculations of the texts the inputs get are made once and kept in a
\* table (@@ makes the table an explicit function, which TLC evaluates once)
Memo ==
    [s \in [entryInput : InputTexts.entry, stopInput : InputTexts.stop,
             takeProfitInput : InputTexts.takeProfit,
             exposureMode : ExposureModes, marginInput : InputTexts.margin,
             positionInput : InputTexts.position, riskMode : RiskModes,
             riskInput : InputTexts.risk] |->
        calculateMetrics(calculatorInputs(s))] @@ <<>>

\* lines 112-134: the calculation of the render that shows the state p,
\* calculateMetrics of the parsed inputs
calculation(p) ==
    LET shown == [f \in {"entryInput", "stopInput", "takeProfitInput",
                          "exposureMode", "marginInput", "positionInput",
                          "riskMode", "riskInput"} |-> p[f]]
    IN  IF shown \in DOMAIN Memo THEN Memo[shown]
        ELSE calculateMetrics(calculatorInputs(p))

----------------------------------------------------------------------------
(* SpecPage: the events of the page in any order.  An event handler runs    *)
(* on the state of the latest render.  A click on the position button       *)
(* leaves a percent risk mode as it is: the page is rendered in position    *)
(* mode with a percent risk, and the effect of lines 99-103, which runs     *)
(* after that render and before the next event, sets the risk mode to       *)
(* amount.  The page sets no limit to the inserts that await their answer:  *)
(* the save button is disabled while saveState is saving only, and a click  *)
(* on the logout button puts saveState back to idle.  The behaviours        *)
(* checked are those with at most MaxPending inserts awaiting their answer  *)
(* at once; saveTrade reads none of them.                                   *)

InitPage ==
    /\ inputs = NoInputs
    /\ result = NoResult
    /\ locals = NoLocals
    /\ pc = "idle"
    /\ callers = <<>>
    /\ heap = <<>>
    /\ page \in {FirstRender(session) : session \in BOOLEAN}

\* the render in position mode with a percent risk is through and its
\* effect has not run yet
EffectDue == page.exposureMode = "position" /\ page.riskMode = "percent"

\* lines 99-103: the effect of the render
RiskModeEffect ==
    /\ EffectDue
    /\ page' = [page EXCEPT !.riskMode = "amount"]
    /\ UNCHANGED <<inputs, result, locals, pc, callers, heap>>

\* setEntryInput: the onChange of the input, or the fetch button when its
\* request has answered
SetEntryInput(raw) ==
    /\ ~EffectDue
    /\ page' = [page EXCEPT !.entryInput = raw]
    /\ UNCHANGED <<inputs, result, locals, pc, callers, heap>>

SetStopInput(raw) ==
    /\ ~EffectDue
    /\ page' = [page EXCEPT !.stopInput = raw]
    /\ UNCHANGED <<inputs, result, locals, pc, callers, heap>>

SetTakeProfitInput(raw) ==
    /\ ~EffectDue
    /\ page' = [page EXCEPT !.takeProfitInput = raw]
    /\ UNCHANGED <<inputs, result, locals, pc, callers, heap>>

\* the margin input is rendered in margin mode only
SetMarginInput(raw) ==
    /\ ~EffectDue
    /\ page.exposureMode = "margin"
    /\ page' = [page EXCEPT !.marginInput = raw]
    /\ UNCHANGED <<inputs, result, locals, pc, callers, heap>>

\* the position input is rendered in position mode only
SetPositionInput(raw) ==
    /\ ~EffectDue
    /\ page.exposureMode = "position"
    /\ page' = [page EXCEPT !.positionInput = raw]
    /\ UNCHANGED <<inputs, result, locals, pc, callers, heap>>

SetRiskInput(raw) ==
    /\ ~EffectDue
    /\ page' = [page EXCEPT !.riskInput = raw]
    /\ UNCHANGED <<inputs, result, locals, pc, callers, heap>>

\* a click on a mode button
SetExposureMode(mode) ==
    /\ ~EffectDue
    /\ page' = [page EXCEPT !.exposureMode = mode]
    /\ UNCHANGED <<inputs, result, locals, pc, callers, heap>>

\* the percent button is disabled in position mode
SetRiskMode(mode) ==
    /\ ~EffectDue
    /\ ~(mode = "percent" /\ page.exposureMode = "position")
    /\ page' = [page EXCEPT !.riskMode = mode]
    /\ UNCHANGED <<inputs, result, locals, pc, callers, heap>>

\* the provider's onAuthStateChange callback: a login or a logout
AuthStateChange(newSession) ==
    /\ ~EffectDue
    /\ page' = [page EXCEPT !.session = newSession]
    /\ UNCHANGED <<inputs, result, locals, pc, callers, heap>>

\* the logout button is rendered with a session only; the end of the
\* session arrives as an AuthStateChange
HandleSignOut ==
    /\ ~EffectDue
    /\ page.session
    /\ page' = [page EXCEPT !.saveState = "idle"]
    /\ UNCHANGED <<inputs, result, locals, pc, callers, heap>>

\* a click on save; the button is disabled while saveState is saving
HandleSaveTrade ==
    /\ ~EffectDue
    /\ page.saveState # "saving"
    /\ page' = saveTrade(page, calculation(page),
                         parseNumeric(page.entryInput),
                         parseNumeric(page.stopInput))
    /\ UNCHANGED <<inputs, result, locals, pc, callers, heap>>

\* lines 249-259: the insert at place i settles, with an error or not, and
\* handleSaveTrade runs to its end
InsertSettles(i, error) ==
    /\ ~EffectDue
    /\ i \in DOMAIN page.requests
    /\ page' = [page EXCEPT !.saveState = IF error THEN "error" ELSE "success",
                            !.requests = SubSeq(@, 1, i - 1)
                                             \o SubSeq(@, i + 1, Len(@))]
    /\ UNCHANGED <<inputs, result, locals, pc, callers, heap>>

NextPage ==
    \/ \E raw \in InputTexts.entry : SetEntryInput(raw)
    \/ \E raw \in InputTexts.stop : SetStopInput(raw)
    \/ \E raw \in InputTexts.takeProfit : SetTakeProfitInput(raw)
    \/ \E raw \in InputTexts.margin : SetMarginInput(raw)
    \/ \E raw \in InputTexts.position : SetPositionInput(raw)
    \/ \E raw \in InputTexts.risk : SetRiskInput(raw)
    \/ \E mode \in ExposureModes : SetExposureMode(mode)
    \/ RiskModeEffect
    \/ \E mode \in RiskModes : SetRiskMode(mode)
    \/ \E newSession \in BOOLEAN : AuthStateChange(newSession)
    \/ HandleSignOut
    \/ HandleSaveTrade /\ Len(page'.requests) <= MaxPending
    \/ \E i \in DOMAIN page.requests, error \in BOOLEAN : InsertSettles(i, error)

SpecPage == InitPage /\ [][NextPage]_vars

----------------------------------------------------------------------------
(* The claims. *)

Returned == pc = "returned"

\* v is a finite number > 0
FinitePositive(v) == v.k = "fin" /\ v.s = 1

\* entryPrice and stopPrice are finite, > 0 and different
PricesDistinct ==
    /\ FinitePositive(inputs.entryPrice)
    /\ FinitePositive(inputs.stopPrice)
    /\ inputs.entryPrice # inputs.stopPrice

IsWarningList(w) ==
    /\ w = [i \in 1..Len(w) |-> w[i]]
    /\ \A i \in 1..Len(w) : w[i] \in WarningCodes

\* the lines of the returns that give up before any leverage is computed
FailureExits == {55, 60, 72, 131, 136, 156, 161}

\* C1: every call of calculateMetrics returns through one of its return
\* statements (none of its steps throws: the arithmetic of doubles is total),
\* what it returns has a boolean ready and a list of warning codes, and every
\* return that gives up (the price gate, equal prices, a failed guard)
\* returns ready = false.
C1_TotalNeverRaises ==
    Returned =>
        /\ result.ready \in BOOLEAN
        /\ IsWarningList(result.warnings)
        /\ locals.exit \in FailureExits \cup {151, 184}
        /\ locals.exit \in FailureExits => result.ready = FALSE

\* the guard of the margin branch failed on a negative marginCapital, with
\* the smallest double as entryPrice
C1_Witness ==
    /\ Returned
    /\ locals.exit = 131
    /\ inputs.marginCapital = Num(-5)
    /\ inputs.entryPrice = MinValue
    /\ inputs.stopPrice = Huge
    /\ result.ready = FALSE

\* C2: ready = true implies that maxLeverage is defined, finite and > 0,
\* that the inputs the mode requires were finite and > 0 (marginCapital in
\* margin mode, positionSize in position mode, allowedLoss in both) and that
\* entryPrice and stopPrice were finite, > 0 and different.
C2_ReadyImpliesValid ==
    (Returned /\ result.ready) =>
        /\ FinitePositive(result.maxLeverage)
        /\ PricesDistinct
        /\ FinitePositive(result.allowedLoss)
        /\ inputs.exposureMode = "margin" => FinitePositive(inputs.marginCapital)
        /\ inputs.exposureMode = "position" => FinitePositive(inputs.positionSize)

\* a ready result of the position branch
C2_Witness ==
    /\ Returned
    /\ result.ready
    /\ inputs.exposureMode = "position"
    /\ inputs.entryPrice = Num(63250)
    /\ inputs.stopPrice = Num(61800)
    /\ result.warnings = <<>>

\* C3: when entryPrice or stopPrice is absent, non-finite, zero or negative
\* the result is exactly { ready: false, warnings: [] }, whatever the other
\* inputs are.
C3_PriceGate ==
    (Returned /\ (~FinitePositive(inputs.entryPrice)
                  \/ ~FinitePositive(inputs.stopPrice))) =>
        result = EarlyResult(<<>>)

\* only the stop is missing, and the other inputs would raise warnings
C3_Witness ==
    /\ Returned
    /\ FinitePositive(inputs.entryPrice)
    /\ inputs.stopPrice = Undef
    /\ inputs.exposureMode = "position"
    /\ inputs.riskMode = "percent"
    /\ inputs.positionSize = Zero
    /\ result = EarlyResult(<<>>)

\* C4: with finite positive entryPrice = stopPrice the result is exactly
\* { ready: false, warnings: [stopEqualsEntry] }, whatever the modes and the
\* other inputs are.
C4_StopEqualsEntry ==
    (Returned /\ FinitePositive(inputs.entryPrice)
              /\ inputs.entryPrice = inputs.stopPrice) =>
        result = EarlyResult(<<"warning.stopEqualsEntry">>)

\* equal prices in position mode with a percent risk and no position size
C4_Witness ==
    /\ Returned
    /\ inputs.entryPrice = Num(100)
    /\ inputs.stopPrice = Num(100)
    /\ inputs.exposureMode = "position"
    /\ inputs.riskMode = "percent"
    /\ inputs.positionSize = Undef
    /\ result.warnings = <<"warning.stopEqualsEntry">>

\* C5: direction is defined exactly when the prices are finite, > 0 and
\* different, and then it is Long iff stopPrice < entryPrice and Short iff
\* stopPrice > entryPrice: it is a function of the two prices alone, so it
\* depends on no takeProfit, exposureMode or riskMode.
C5_DirectionLaw ==
    Returned =>
        /\ result.direction \in {"Long", "Short", "undefined"}
        /\ result.direction # "undefined" <=> PricesDistinct
        /\ result.direction # "undefined" =>
            /\ result.direction = "Long" <=> Lt(inputs.stopPrice, inputs.entryPrice)
            /\ result.direction = "Short" <=> Gt(inputs.stopPrice, inputs.entryPrice)

\* a Short result that is not ready
C5_Witness ==
    /\ Returned
    /\ result.direction = "Short"
    /\ inputs.entryPrice = Num(100)
    /\ inputs.stopPrice = Num(200)
    /\ ~result.ready

\* C6: when the prices are finite, > 0 and different, every result, ready or
\* not, carries direction, priceDelta = |entryPrice - stopPrice| > 0,
\* priceDeltaPct = priceDelta / entryPrice * 100 and theoreticalMaxLeverage =
\* entryPrice / priceDelta: functions of the two prices alone.
C6_PartialResult ==
    (Returned /\ PricesDistinct) =>
        /\ result.direction \in {"Long", "Short"}
        /\ result.priceDelta = Abs(Sub(inputs.entryPrice, inputs.stopPrice))
        /\ FinitePositive(result.priceDelta)
        /\ result.priceDeltaPct =
               Mul(Div(result.priceDelta, inputs.entryPrice), Num(100))
        /\ result.theoreticalMaxLeverage =
               Div(inputs.entryPrice, result.priceDelta)

\* a Short result stopped by the invalidPosition guard
C6_Witness ==
    /\ Returned
    /\ locals.exit = 156
    /\ inputs.entryPrice = Num(50)
    /\ inputs.stopPrice = Num(200)
    /\ result.priceDelta = Num(150)
    /\ result.theoreticalMaxLeverage = ToDouble(1, 1, 3, 0)

\* the margin branch passed both guards
ValidMargin ==
    /\ PricesDistinct
    /\ inputs.exposureMode = "margin"
    /\ FinitePositive(inputs.marginCapital)
    /\ FinitePositive(locals.allowedLoss)

\* the formulas of the margin branch
MarginFormulas ==
    LET priceDelta == Abs(Sub(inputs.entryPrice, inputs.stopPrice))
    IN  /\ result.maxLeverage =
               Div(Mul(locals.allowedLoss, inputs.entryPrice),
                   Mul(inputs.marginCapital, priceDelta))
        /\ result.maxPositionSize = Mul(inputs.marginCapital, result.maxLeverage)
        /\ result.lossAtStop =
               Mul(Div(priceDelta, inputs.entryPrice), result.maxPositionSize)
        /\ result.requiredMargin = inputs.marginCapital

\* entry 63250, stop 61800, margin 5000, risk amount 300
ScenarioA ==
    /\ inputs.entryPrice = Num(63250)
    /\ inputs.stopPrice = Num(61800)
    /\ inputs.exposureMode = "margin"
    /\ inputs.marginCapital = Num(5000)
    /\ inputs.riskMode = "amount"
    /\ inputs.riskValue = Num(300)

ScenarioAResult ==
    /\ result.direction = "Long"
    /\ result.priceDelta = Num(1450)
    /\ result.maxLeverage = ToDouble(1, 18975000, 7250000, 0)
    /\ result.ready = TRUE

\* C7 as claimed: every valid margin-mode input gives the formulas of the
\* margin branch and ready = true.
C7_MarginAlwaysReady ==
    (Returned /\ ValidMargin) =>
        /\ MarginFormulas
        /\ result.ready = TRUE
        /\ ScenarioA => ScenarioAResult

\* C7, amended: every valid margin-mode input gives maxLeverage =
\* (allowedLoss * entryPrice) / (marginCapital * priceDelta), maxPositionSize
\* = marginCapital * maxLeverage, lossAtStop = (priceDelta / entryPrice) *
\* maxPositionSize and requiredMargin = marginCapital, and ready is true
\* exactly when that maxLeverage is finite and > 0 (it is neither when a
\* product overflows or the quotient underflows); scenario A is ready with
\* maxLeverage = 18975000/7250000.
C7_MarginFormulas ==
    (Returned /\ ValidMargin) =>
        /\ MarginFormulas
        /\ result.ready = FinitePositive(result.maxLeverage)
        /\ ScenarioA => ScenarioAResult

\* scenario A has returned
C7_Witness == Returned /\ ScenarioA /\ result.ready

\* the position branch passed both guards
ValidPosition ==
    /\ PricesDistinct
    /\ inputs.exposureMode = "position"
    /\ FinitePositive(inputs.positionSize)
    /\ FinitePositive(locals.allowedLoss)

\* C8: every position-mode input that passes the positionSize and allowedLoss
\* guards, positionTooLarge or not, has maxLeverage = theoreticalMaxLeverage
\* = entryPrice / priceDelta, a function of the two prices alone.
C8_PositionMaxLeverage ==
    (Returned /\ ValidPosition) =>
        /\ result.maxLeverage = result.theoreticalMaxLeverage
        /\ result.maxLeverage =
               Div(inputs.entryPrice, Abs(Sub(inputs.entryPrice, inputs.stopPrice)))

\* a position too large for the allowed loss
C8_Witness ==
    /\ Returned
    /\ ValidPosition
    /\ result.warnings = <<"warning.positionTooLarge">>
    /\ inputs.entryPrice = Num(200)
    /\ inputs.stopPrice = Num(50)
    /\ result.maxLeverage = ToDouble(1, 4, 3, 0)

\* C9: whatever calls were made before and after, the result a caller holds
\* is the one its own inputs determine (ready, fields and warnings in their
\* order), so two callers with the same inputs hold equal results, and the
\* arrays of two results are different arrays.
C9_NoHiddenState ==
    \A c1 \in Callers : callers[c1].held =>
        /\ Held(c1) = calculateMetrics(callers[c1].inputs)
        /\ \A c2 \in Callers :
              (callers[c2].held /\ callers[c2].inputs = callers[c1].inputs) =>
                  /\ Held(c2) = Held(c1)
                  /\ c1 # c2 => callers[c1].result.warnings # callers[c2].result.warnings

\* two callers hold results of the same inputs with a warning, and a third
\* call was made since
C9_Witness ==
    /\ callers[1].held /\ callers[2].held
    /\ callers[1].inputs = callers[2].inputs
    /\ callers[1].result.warnings = 1
    /\ callers[2].result.warnings = 3
    /\ Held(1).warnings = <<"warning.invalidMargin">>

\* C10: past the price checks the local allowedLoss is: with riskMode amount,
\* riskValue when that is finite and > 0; with riskMode percent and
\* exposureMode margin, marginCapital * riskValue / 100 when both are finite
\* and > 0; undefined otherwise, and always with percent in position mode.
C10_AllowedLoss ==
    (Returned /\ PricesDistinct) =>
        locals.allowedLoss =
            IF inputs.riskMode = "amount"
            THEN (IF FinitePositive(inputs.riskValue) THEN inputs.riskValue
                  ELSE Undef)
            ELSE IF inputs.exposureMode = "margin"
                 THEN (IF FinitePositive(inputs.marginCapital)
                          /\ FinitePositive(inputs.riskValue)
                       THEN Div(Mul(inputs.marginCapital, inputs.riskValue), Num(100))
                       ELSE Undef)
                 ELSE Undef

\* percent of the margin in margin mode; percent in position mode
C10_Witness ==
    /\ Returned
    /\ PricesDistinct
    /\ inputs.riskMode = "percent"
    /\ inputs.exposureMode = "margin"
    /\ inputs.marginCapital = Num(5000)
    /\ inputs.riskValue = Num(2)
    /\ locals.allowedLoss = Num(100)
    /\ result.allowedLoss = Num(100)

\* the last warning of the result
LastWarning == result.warnings[Len(result.warnings)]

\* the set of the warnings of the result
WarningSet == {result.warnings[i] : i \in 1..Len(result.warnings)}

\* the three fields of the take-profit helper are undefined
NoTakeProfitFields ==
    /\ result.expectedProfit = Undef
    /\ result.expectedReturnPct = Undef
    /\ result.riskRewardRatio = Undef

\* C11: in margin mode with finite, positive, different prices and a
\* marginCapital that is absent, non-finite, zero or negative, the result is
\* not ready, its warnings are exactly [invalidMargin] with either riskMode
\* (so no invalidLoss, whatever riskValue is), and maxLeverage,
\* maxPositionSize, allowedLoss, lossAtStop and requiredMargin are undefined.
C11_MarginGuard ==
    (Returned /\ PricesDistinct /\ inputs.exposureMode = "margin"
              /\ ~FinitePositive(inputs.marginCapital)) =>
        /\ result.ready = FALSE
        /\ result.warnings = <<"warning.invalidMargin">>
        /\ result.maxLeverage = Undef
        /\ result.maxPositionSize = Undef
        /\ result.allowedLoss = Undef
        /\ result.lossAtStop = Undef
        /\ result.requiredMargin = Undef

\* a marginCapital of 0 with a percent risk that has no value either
C11_Witness ==
    /\ Returned
    /\ PricesDistinct
    /\ inputs.exposureMode = "margin"
    /\ inputs.marginCapital = Zero
    /\ inputs.riskMode = "percent"
    /\ inputs.riskValue = Undef
    /\ locals.exit = 131
    /\ result.warnings = <<"warning.invalidMargin">>

\* the input the exposure mode requires is finite and > 0
ModeInputValid ==
    IF inputs.exposureMode = "margin" THEN FinitePositive(inputs.marginCapital)
    ELSE FinitePositive(inputs.positionSize)

\* C12: in either exposure mode, with finite, positive, different prices and
\* a valid marginCapital (margin mode) or positionSize (position mode), when
\* the local allowedLoss is undefined or not finite and > 0 the result is not
\* ready, invalidLoss is the last warning, maxLeverage, maxPositionSize,
\* lossAtStop, requiredMargin, riskPercentOfCapital and the three take-profit
\* fields are undefined, and there is no takeProfit warning.
C12_AllowedLossGuard ==
    (Returned /\ PricesDistinct /\ ModeInputValid
              /\ ~FinitePositive(locals.allowedLoss)) =>
        /\ result.ready = FALSE
        /\ Len(result.warnings) > 0
        /\ LastWarning = "warning.invalidLoss"
        /\ locals.exit = IF inputs.exposureMode = "margin" THEN 136 ELSE 161
        /\ result.maxLeverage = Undef
        /\ result.maxPositionSize = Undef
        /\ result.lossAtStop = Undef
        /\ result.requiredMargin = Undef
        /\ result.riskPercentOfCapital = Undef
        /\ NoTakeProfitFields
        /\ "warning.takeProfit" \notin WarningSet

\* position mode with a valid positionSize, no riskValue and a take-profit
\* on the wrong side
C12_Witness ==
    /\ Returned
    /\ PricesDistinct
    /\ inputs.exposureMode = "position"
    /\ inputs.positionSize = Num(600)
    /\ inputs.riskMode = "amount"
    /\ inputs.riskValue = Zero
    /\ inputs.entryPrice = Num(100)
    /\ inputs.stopPrice = Num(50)
    /\ inputs.takeProfit = Num(75)
    /\ result.warnings = <<"warning.invalidLoss">>

\* C13: in position mode with finite, positive, different prices and a
\* positionSize that is absent, non-finite, zero or negative, the result is
\* not ready, invalidPosition is pushed (after percentPosition with a percent
\* risk) and the call returns there, before the allowedLoss check: no
\* invalidLoss, positionTooLarge or takeProfit warning, and maxLeverage,
\* maxPositionSize, lossAtStop, requiredMargin and the take-profit fields are
\* undefined.
C13_PositionGuardFirst ==
    (Returned /\ PricesDistinct /\ inputs.exposureMode = "position"
              /\ ~FinitePositive(inputs.positionSize)) =>
        /\ result.ready = FALSE
        /\ locals.exit = 156
        /\ result.warnings =
               IF inputs.riskMode = "percent"
               THEN <<"warning.percentPosition", "warning.invalidPosition">>
               ELSE <<"warning.invalidPosition">>
        /\ result.maxLeverage = Undef
        /\ result.maxPositionSize = Undef
        /\ result.lossAtStop = Undef
        /\ result.requiredMargin = Undef
        /\ NoTakeProfitFields

\* no positionSize and no riskValue either: only invalidPosition is reported
C13_Witness ==
    /\ Returned
    /\ PricesDistinct
    /\ inputs.exposureMode = "position"
    /\ inputs.positionSize = Undef
    /\ inputs.riskMode = "amount"
    /\ inputs.riskValue = Undef
    /\ inputs.takeProfit = Num(200)
    /\ result.warnings = <<"warning.invalidPosition">>

\* exposureMode = position and riskMode = percent, with finite, positive,
\* different prices
PercentOfPosition ==
    /\ PricesDistinct
    /\ inputs.exposureMode = "position"
    /\ inputs.riskMode = "percent"

\* C14 as claimed: every input with valid distinct prices, exposureMode =
\* position and riskMode = percent gives ready = false, an undefined
\* allowedLoss, and warnings with percentPosition and, after it, invalidLoss.
C14_PercentPositionThenLoss ==
    (Returned /\ PercentOfPosition) =>
        /\ result.ready = FALSE
        /\ result.allowedLoss = Undef
        /\ locals.allowedLoss = Undef
        /\ \E i, j \in 1..Len(result.warnings) :
              /\ i < j
              /\ result.warnings[i] = "warning.percentPosition"
              /\ result.warnings[j] = "warning.invalidLoss"

\* C14, amended: every input with valid distinct prices, exposureMode =
\* position and riskMode = percent gives ready = false and an undefined
\* allowedLoss; its warnings are [percentPosition, invalidLoss] when
\* positionSize is finite and > 0, and [percentPosition, invalidPosition]
\* (no invalidLoss: the call returns at the positionSize guard) when it is
\* not.
C14_PercentPosition ==
    (Returned /\ PercentOfPosition) =>
        /\ result.ready = FALSE
        /\ result.allowedLoss = Undef
        /\ locals.allowedLoss = Undef
        /\ result.warnings =
               IF FinitePositive(inputs.positionSize)
               THEN <<"warning.percentPosition", "warning.invalidLoss">>
               ELSE <<"warning.percentPosition", "warning.invalidPosition">>

\* scenario C with a position of 600 and a risk of 2 percent
C14_Witness ==
    /\ Returned
    /\ PercentOfPosition
    /\ inputs.positionSize = Num(600)
    /\ inputs.riskValue = Num(2)
    /\ inputs.marginCapital = Num(5000)
    /\ locals.exit = 161
    /\ result.warnings = <<"warning.percentPosition", "warning.invalidLoss">>

\* (priceDelta / entryPrice) * positionSize, from the inputs
LossAtStopOfPosition ==
    Mul(Div(Abs(Sub(inputs.entryPrice, inputs.stopPrice)), inputs.entryPrice),
        inputs.positionSize)

\* C15: every position-mode input that passes the positionSize and
\* allowedLoss guards has lossAtStop = (priceDelta / entryPrice) *
\* positionSize and ready = (allowedLoss >= lossAtStop and maxLeverage is
\* finite); when allowedLoss = lossAtStop the result is ready and has no
\* positionTooLarge warning.
C15_PositionReadiness ==
    (Returned /\ ValidPosition) =>
        /\ result.lossAtStop = LossAtStopOfPosition
        /\ result.ready = (Ge(locals.allowedLoss, result.lossAtStop)
                           /\ IsFinite(result.maxLeverage))
        /\ locals.allowedLoss = result.lossAtStop =>
              /\ result.ready = TRUE
              /\ "warning.positionTooLarge" \notin WarningSet

\* the boundary: a position of 600 stopped at half the entry loses the 300
\* allowed
C15_Witness ==
    /\ Returned
    /\ ValidPosition
    /\ inputs.entryPrice = Num(100)
    /\ inputs.stopPrice = Num(50)
    /\ inputs.positionSize = Num(600)
    /\ locals.allowedLoss = Num(300)
    /\ result.lossAtStop = Num(300)
    /\ result.ready = TRUE

\* C16 as claimed: the positionTooLarge warning does not block readiness: a
\* result that carries it is ready whenever nothing else blocks it, that is
\* whenever maxLeverage is finite.
C16_TooLargeStillReady ==
    (Returned /\ "warning.positionTooLarge" \in WarningSet) =>
        result.ready = IsFinite(result.maxLeverage)

\* C16, amended: positionTooLarge is pushed exactly when a position-mode
\* input passes both guards with allowedLoss < lossAtStop; ready does not
\* read the warnings, but allowedLoss >= lossAtStop, which it requires, is
\* false then: every result that carries positionTooLarge has ready = false
\* (its leverage fields are populated all the same).
C16_TooLargeNeverReady ==
    Returned =>
        /\ "warning.positionTooLarge" \in WarningSet <=>
               (ValidPosition /\ Lt(locals.allowedLoss, result.lossAtStop))
        /\ "warning.positionTooLarge" \in WarningSet =>
              /\ result.ready = FALSE
              /\ IsFinite(result.maxLeverage)
              /\ result.maxPositionSize # Undef

\* a position of 600 that loses 450 at the stop, with 300 allowed
C16_Witness ==
    /\ Returned
    /\ inputs.entryPrice = Num(200)
    /\ inputs.stopPrice = Num(50)
    /\ inputs.positionSize = Num(600)
    /\ locals.allowedLoss = Num(300)
    /\ result.lossAtStop = Num(450)
    /\ "warning.positionTooLarge" \in WarningSet
    /\ result.ready = FALSE

\* v is a number, not undefined and not NaN
Populated(v) == v.k \in {"fin", "inf"}

\* C17: every position-mode input with a valid positionSize and allowedLoss
\* and allowedLoss < lossAtStop has ready = false and the warning
\* positionTooLarge, and still lossAtStop, maxLeverage, allowedLoss,
\* requiredMargin = lossAtStop, maxPositionSize = allowedLoss * entryPrice /
\* priceDelta and riskPercentOfCapital = allowedLoss / requiredMargin * 100
\* are all populated.
C17_PartialSuccess ==
    (Returned /\ ValidPosition
              /\ Lt(locals.allowedLoss, LossAtStopOfPosition)) =>
        /\ result.ready = FALSE
        /\ "warning.positionTooLarge" \in WarningSet
        /\ result.lossAtStop = LossAtStopOfPosition
        /\ result.maxLeverage =
               Div(inputs.entryPrice, Abs(Sub(inputs.entryPrice, inputs.stopPrice)))
        /\ result.allowedLoss = locals.allowedLoss
        /\ result.requiredMargin = result.lossAtStop
        /\ result.maxPositionSize =
               Div(Mul(locals.allowedLoss, inputs.entryPrice),
                   Abs(Sub(inputs.entryPrice, inputs.stopPrice)))
        /\ result.riskPercentOfCapital =
               Mul(Div(locals.allowedLoss, result.requiredMargin), Num(100))
        /\ \A f \in {"lossAtStop", "maxLeverage", "allowedLoss", "requiredMargin",
                     "maxPositionSize", "riskPercentOfCapital"} :
              Populated(result[f])

\* scenario E: entry 63250, stop 61800, a position of 25000 and 300 allowed
C17_Witness ==
    /\ Returned
    /\ inputs.exposureMode = "position"
    /\ inputs.entryPrice = Num(63250)
    /\ inputs.stopPrice = Num(61800)
    /\ inputs.positionSize = Num(25000)
    /\ inputs.riskMode = "amount"
    /\ inputs.riskValue = Num(300)
    /\ result.warnings = <<"warning.positionTooLarge">>
    /\ result.lossAtStop = ToDouble(1, 1450 * 25000, 63250, 0)
    /\ result.maxPositionSize = ToDouble(1, 300 * 63250, 1450, 0)
    /\ result.ready = FALSE

\* the call passed the guards of its branch and computed the leverage
LeverageComputed == locals.exit \in {151, 184}

\* the baseNotional and the baseCapital the branch passes to the take-profit
\* helper
BaseNotional ==
    IF inputs.exposureMode = "margin" THEN result.maxPositionSize
    ELSE inputs.positionSize
BaseCapital ==
    IF inputs.exposureMode = "margin" THEN inputs.marginCapital
    ELSE result.requiredMargin

\* takeProfit is a non-zero number on the losing side of entryPrice
WrongSide ==
    /\ ~Falsy(inputs.takeProfit)
    /\ IF result.direction = "Long"
       THEN Le(inputs.takeProfit, inputs.entryPrice)
       ELSE Ge(inputs.takeProfit, inputs.entryPrice)

\* what calculateMetrics returns for the same inputs without a takeProfit
WithoutTakeProfit == calculateMetrics([inputs EXCEPT !.takeProfit = Undef])

\* the takeProfit warning was pushed last, no take-profit field is set and
\* everything else is as without a takeProfit
TakeProfitRejected ==
    /\ Len(result.warnings) > 0
    /\ LastWarning = "warning.takeProfit"
    /\ NoTakeProfitFields
    /\ result = [WithoutTakeProfit EXCEPT
                    !.warnings = Append(@, "warning.takeProfit")]

\* C18 as claimed: whenever the leverage computation has been reached and a
\* non-zero takeProfit is on the wrong side of entryPrice, the warning
\* takeProfit is pushed, the three take-profit fields stay undefined and
\* ready, maxLeverage and every other field are what they are without a
\* takeProfit.
C18_WrongSideAlwaysWarns ==
    (Returned /\ LeverageComputed /\ WrongSide) => TakeProfitRejected

\* C18, amended: the same, provided the baseNotional of the branch
\* (maxPositionSize in margin mode, positionSize in position mode) is finite
\* and > 0; when it is not (a maxPositionSize of 0, Infinity or NaN in margin
\* mode) the takeProfit is skipped without a warning and the result is the
\* one without a takeProfit.
C18_WrongSideTakeProfit ==
    (Returned /\ LeverageComputed /\ WrongSide) =>
        IF FinitePositive(BaseNotional) THEN TakeProfitRejected
        ELSE result = WithoutTakeProfit

\* scenario D: scenario A with a takeProfit of 75, below the entry of a Long
C18_Witness ==
    /\ Returned
    /\ ScenarioA
    /\ inputs.takeProfit = Num(75)
    /\ result.direction = "Long"
    /\ result.ready = TRUE
    /\ result.maxLeverage = ToDouble(1, 18975000, 7250000, 0)
    /\ result.warnings = <<"warning.takeProfit">>

\* takeProfit is a non-zero number on the winning side of entryPrice
ProfitableSide ==
    /\ ~Falsy(inputs.takeProfit)
    /\ IF result.direction = "Long"
       THEN Gt(inputs.takeProfit, inputs.entryPrice)
       ELSE Lt(inputs.takeProfit, inputs.entryPrice)

ProfitDeltaRaw ==
    IF result.direction = "Long"
    THEN Sub(inputs.takeProfit, inputs.entryPrice)
    ELSE Sub(inputs.entryPrice, inputs.takeProfit)

\* riskRewardRatio and expectedProfit as the helper computes them
ProfitFormulas ==
    /\ result.riskRewardRatio = Div(ProfitDeltaRaw, result.priceDelta)
    /\ result.expectedProfit =
           Mul(Div(ProfitDeltaRaw, inputs.entryPrice), BaseNotional)

\* C19 as claimed: when the leverage computation has been reached and a
\* non-zero takeProfit is on the profitable side, riskRewardRatio =
\* profitDeltaRaw / priceDelta, expectedProfit = (profitDeltaRaw /
\* entryPrice) * baseNotional and expectedReturnPct = expectedProfit /
\* baseCapital * 100, with (maxPositionSize, marginCapital) in margin mode
\* and (positionSize, requiredMargin) in position mode.
C19_ProfitableSideAlwaysFilled ==
    (Returned /\ LeverageComputed /\ ProfitableSide) =>
        /\ ProfitFormulas
        /\ result.expectedReturnPct =
               Mul(Div(result.expectedProfit, BaseCapital), Num(100))

\* C19, amended: the same for a baseNotional that is finite and > 0 and a
\* profitDeltaRaw that is finite, with expectedReturnPct = expectedProfit /
\* baseCapital * 100 when expectedProfit and baseCapital are both non-zero
\* and undefined when one of them is 0; no takeProfit warning is pushed.
\* When profitDeltaRaw is Infinity (an infinite takeProfit, or a difference
\* of finite prices that overflows) the takeProfit is rejected with the
\* takeProfit warning and no take-profit field; a baseNotional that is not
\* finite and > 0 skips the helper.
C19_TakeProfitMetrics ==
    (Returned /\ LeverageComputed /\ ProfitableSide
              /\ FinitePositive(BaseNotional)) =>
        IF IsFinite(ProfitDeltaRaw)
        THEN /\ FinitePositive(ProfitDeltaRaw)
             /\ ProfitFormulas
             /\ result.expectedReturnPct =
                    IF result.expectedProfit = Zero \/ BaseCapital = Zero
                    THEN Undef
                    ELSE Mul(Div(result.expectedProfit, BaseCapital), Num(100))
             /\ "warning.takeProfit" \notin WarningSet
        ELSE TakeProfitRejected

\* a Short of 600 from 100 with the stop at 200 and the takeProfit at 75:
\* the position is too large and the profit of 150 is 25 percent of the 600
\* at risk
C19_Witness ==
    /\ Returned
    /\ inputs.exposureMode = "position"
    /\ inputs.entryPrice = Num(100)
    /\ inputs.stopPrice = Num(200)
    /\ inputs.takeProfit = Num(75)
    /\ inputs.positionSize = Num(600)
    /\ locals.allowedLoss = Num(300)
    /\ result.riskRewardRatio = ToDouble(1, 1, 4, 0)
    /\ result.expectedProfit = Num(150)
    /\ result.expectedReturnPct = Num(25)

\* C20: when takeProfit is absent or 0 the three take-profit fields are
\* undefined, there is no takeProfit warning, and the whole result (ready,
\* every field, the warnings) is the one of the same inputs with takeProfit
\* absent and the one of the same inputs with takeProfit 0.
C20_SilentSkip ==
    (Returned /\ inputs.takeProfit \in {Undef, Zero}) =>
        /\ NoTakeProfitFields
        /\ "warning.takeProfit" \notin WarningSet
        /\ \A tp \in {Undef, Zero} :
              result = calculateMetrics([inputs EXCEPT !.takeProfit = tp])

\* a ready Long in margin mode with a takeProfit of 0
C20_Witness ==
    /\ Returned
    /\ inputs.takeProfit = Zero
    /\ inputs.entryPrice = Num(100)
    /\ inputs.stopPrice = Num(50)
    /\ locals.exit = 151
    /\ result.ready = TRUE
    /\ result.warnings = <<>>

\* the take-profit helper went past its checks and set its fields
TakeProfitComputed == result.riskRewardRatio # Undef

\* the divisor of the division in toRatio(value, total), when it gets there
RatioDivisors(value, total) ==
    IF Falsy(value) \/ Falsy(total) THEN {} ELSE {total}

\* the divisors of the divisions the call executed on the path it took:
\* lines 68 and 75, then 139, 145 and 146 (margin branch) or 164, 171, 173
\* and 179 (position branch), then 118, 122 and 123 (take-profit helper)
DivisorsUsed ==
    (IF locals.exit \in {55, 60} THEN {} ELSE {inputs.entryPrice})
    \cup (IF locals.exit \in {55, 60, 72} THEN {} ELSE {result.priceDelta})
    \cup (IF locals.exit = 151
          THEN {Mul(inputs.marginCapital, result.priceDelta)}
               \cup RatioDivisors(locals.allowedLoss, inputs.marginCapital)
          ELSE {})
    \cup (IF locals.exit = 184
          THEN RatioDivisors(locals.allowedLoss, result.requiredMargin)
          ELSE {})
    \cup (IF TakeProfitComputed
          THEN RatioDivisors(result.expectedProfit, BaseCapital)
          ELSE {})

\* C21: on every path of calculateMetrics every divisor used (entryPrice,
\* priceDelta, marginCapital * priceDelta, marginCapital, requiredMargin,
\* the baseCapital of the take-profit helper) is > 0 where it divides: no
\* division by zero.
C21_NoDivisionByZero ==
    Returned => \A d \in DivisorsUsed : Gt(d, Zero)

\* the places of the warning w in the warnings of the result
Places(w) == {i \in 1..Len(result.warnings) : result.warnings[i] = w}

\* every w1 in the warnings comes before every w2
Before(w1, w2) == \A i \in Places(w1), j \in Places(w2) : i < j

\* the warnings of the three guards that stop a branch
GuardCodes ==
    {"warning.invalidMargin", "warning.invalidPosition", "warning.invalidLoss"}

\* C22: every warning of every result is one of the eight codes, no code
\* occurs twice, at most one of invalidMargin, invalidPosition and
\* invalidLoss occurs, a result has at most two warnings, percentPosition
\* comes before invalidPosition and invalidLoss, and positionTooLarge before
\* takeProfit.
C22_WarningTaxonomy ==
    Returned =>
        /\ WarningSet \subseteq WarningCodes
        /\ Cardinality(WarningCodes) = 8
        /\ \A w \in WarningCodes : Cardinality(Places(w)) <= 1
        /\ Cardinality(WarningSet \cap GuardCodes) <= 1
        /\ Len(result.warnings) <= 2
        /\ Before("warning.percentPosition", "warning.invalidPosition")
        /\ Before("warning.percentPosition", "warning.invalidLoss")
        /\ Before("warning.positionTooLarge", "warning.takeProfit")

\* a position too large with a take-profit on the wrong side: two warnings
C22_Witness ==
    /\ Returned
    /\ inputs.entryPrice = Num(100)
    /\ inputs.stopPrice = Num(50)
    /\ inputs.takeProfit = Num(75)
    /\ result.warnings = <<"warning.positionTooLarge", "warning.takeProfit">>

\* the warnings about the stop price
StopCodes == {"warning.stopEqualsEntry", "warning.invalidStop"}

\* entryPrice and stopPrice are finite and > 0 with stopPrice >= entryPrice
StopNotBelowEntry ==
    /\ FinitePositive(inputs.entryPrice)
    /\ FinitePositive(inputs.stopPrice)
    /\ Ge(inputs.stopPrice, inputs.entryPrice)

\* C23 as claimed: for finite positive prices with stopPrice >= entryPrice
\* (equal to it or above it) the result has a warning about the stop price.
C23_StopAboveEntryWarns ==
    (Returned /\ StopNotBelowEntry) => WarningSet \cap StopCodes # {}

\* C23, amended: for finite positive prices, stopPrice = entryPrice gives the
\* warning stopEqualsEntry (and nothing else); a stopPrice above entryPrice
\* is not an invalid combination: the result has direction Short, its
\* price-derived fields, and no warning about the stop price.
C23_StopEqualWarnsAboveIsShort ==
    (Returned /\ StopNotBelowEntry) =>
        IF inputs.stopPrice = inputs.entryPrice
        THEN result.warnings = <<"warning.stopEqualsEntry">>
        ELSE /\ result.direction = "Short"
             /\ FinitePositive(result.priceDelta)
             /\ WarningSet \cap StopCodes = {}

\* a ready Short: the stop at 200 above the entry at 100, without warnings
C23_Witness ==
    /\ Returned
    /\ inputs.entryPrice = Num(100)
    /\ inputs.stopPrice = Num(200)
    /\ result.direction = "Short"
    /\ result.ready = TRUE
    /\ result.warnings = <<>>

\* C24: a ready result has no warnings or exactly [takeProfit]: none of
\* stopEqualsEntry, invalidStop, percentPosition, invalidMargin, invalidLoss,
\* invalidPosition and positionTooLarge is in a ready result.
C24_ReadyHasNoBlockingWarning ==
    (Returned /\ result.ready) =>
        /\ result.warnings \in {<<>>, <<"warning.takeProfit">>}
        /\ WarningSet \cap (WarningCodes \ {"warning.takeProfit"}) = {}

\* a ready result of the position branch with a take-profit on the wrong side
C24_Witness ==
    /\ Returned
    /\ result.ready = TRUE
    /\ inputs.exposureMode = "position"
    /\ inputs.positionSize = Num(600)
    /\ result.lossAtStop = Num(300)
    /\ result.warnings = <<"warning.takeProfit">>

\* the result is not ready and says nothing about why
SilentFailure == result.ready = FALSE /\ result.warnings = <<>>

\* entryPrice or stopPrice is absent, non-finite, zero or negative
PriceInvalid ==
    ~FinitePositive(inputs.entryPrice) \/ ~FinitePositive(inputs.stopPrice)

\* C25 as claimed: a result with ready = false and no warnings is returned
\* exactly when entryPrice or stopPrice is invalid; past the price gate a
\* result that is not ready has a warning, and a margin-mode input that
\* passes both guards is ready.
C25_NoSilentFailure ==
    Returned =>
        /\ SilentFailure <=> PriceInvalid
        /\ ValidMargin => result.ready = TRUE

\* C25, amended: a result with ready = false and no warnings is returned
\* exactly when entryPrice or stopPrice is invalid, or when a margin-mode
\* input passes both guards and its maxLeverage is not finite and > 0 (it is
\* 0, Infinity or NaN after an overflow, an underflow or the division by a
\* product that underflowed to 0); every other result that is not ready has
\* a warning.
C25_SilentOnlyAtGateOrRange ==
    Returned =>
        SilentFailure <=>
            \/ PriceInvalid
            \/ (ValidMargin /\ ~FinitePositive(result.maxLeverage))

\* a margin-mode input with no capital: not ready, with invalidMargin
C25_Witness ==
    /\ Returned
    /\ ~PriceInvalid
    /\ inputs.exposureMode = "margin"
    /\ inputs.marginCapital = Undef
    /\ inputs.riskValue = Num(300)
    /\ result.ready = FALSE
    /\ result.warnings = <<"warning.invalidMargin">>

\* v is a normal double: finite, > 0 and at least 2^MinNormalExp, so that
\* the operation that gave it neither overflowed nor lost digits to underflow
Normal(v) == FinitePositive(v) /\ TopExp(v) > MinNormalExp

\* a is b up to the rounding of a few operations: |a - b| <= 2^-50 * |b|
Close(a, b) == Le(Abs(Sub(a, b)), Mul(Abs(b), Scaled(1, -50)))

\* every product and quotient of lines 139-146 (and of line 86 with a percent
\* risk) is a normal double
MarginInRange ==
    /\ Normal(locals.allowedLoss)
    /\ Normal(Mul(locals.allowedLoss, inputs.entryPrice))
    /\ Normal(Mul(inputs.marginCapital, result.priceDelta))
    /\ Normal(result.maxLeverage)
    /\ Normal(result.maxPositionSize)
    /\ Normal(Div(result.priceDelta, inputs.entryPrice))
    /\ Normal(Div(locals.allowedLoss, inputs.marginCapital))
    /\ inputs.riskMode = "percent" =>
           Normal(Mul(inputs.marginCapital, inputs.riskValue))

\* C26: every margin-mode input that passes both guards, with every product
\* and quotient of the branch in the range of the normal doubles, has
\* lossAtStop = allowedLoss as far as doubles can tell, that is up to the
\* rounding of the six operations between the two (the two are equal in
\* exact arithmetic), and riskPercentOfCapital = allowedLoss / marginCapital
\* * 100, which is riskValue, up to rounding again, when riskMode is percent.
C26_MarginExhaustsRisk ==
    (Returned /\ ValidMargin /\ MarginInRange) =>
        /\ Close(result.lossAtStop, locals.allowedLoss)
        /\ result.allowedLoss = locals.allowedLoss
        /\ result.riskPercentOfCapital =
               Mul(Div(locals.allowedLoss, inputs.marginCapital), Num(100))
        /\ inputs.riskMode = "percent" =>
               Close(result.riskPercentOfCapital, inputs.riskValue)

\* 2 percent of a margin of 5000 on a Long from 63250 with the stop at
\* 61800: the allowed loss is 100 and the loss at the stop the double below
\* 100, 99.99999999999999
C26_Witness ==
    /\ Returned
    /\ ValidMargin
    /\ MarginInRange
    /\ inputs.entryPrice = Num(63250)
    /\ inputs.stopPrice = Num(61800)
    /\ inputs.marginCapital = Num(5000)
    /\ inputs.riskMode = "percent"
    /\ inputs.riskValue = Num(2)
    /\ locals.allowedLoss = Num(100)
    /\ result.maxPositionSize = ToDouble(1, 100 * 63250, 1450, 0)
    /\ result.lossAtStop = Sub(Num(100), Scaled(1, -46))
    /\ result.riskPercentOfCapital = Num(2)

\* maxLeverage <= theoreticalMaxLeverage exactly when allowedLoss <=
\* marginCapital, and above it the result is ready with maxLeverage >
\* theoreticalMaxLeverage and no warning for it (a takeProfit warning apart)
LeverageRelation ==
    /\ Le(result.maxLeverage, result.theoreticalMaxLeverage) <=>
           Le(locals.allowedLoss, inputs.marginCapital)
    /\ Gt(locals.allowedLoss, inputs.marginCapital) =>
          /\ result.ready = TRUE
          /\ Gt(result.maxLeverage, result.theoreticalMaxLeverage)
          /\ WarningSet \subseteq {"warning.takeProfit"}

\* C27 as claimed: every margin-mode input that passes both guards has
\* maxLeverage <= theoreticalMaxLeverage iff allowedLoss <= marginCapital,
\* and with allowedLoss > marginCapital it is ready with maxLeverage strictly
\* above theoreticalMaxLeverage and without a warning.
C27_LeverageRelationAlways == (Returned /\ ValidMargin) => LeverageRelation

\* 1 + 2^-50: what the rounding of a few operations can multiply a value by
RoundingFactor == Sub(Num(1), Neg(Scaled(1, -50)))

\* the products and quotients behind the two leverage figures are normal
\* doubles
LeverageInRange ==
    /\ Normal(Mul(locals.allowedLoss, inputs.entryPrice))
    /\ Normal(Mul(inputs.marginCapital, result.priceDelta))
    /\ Normal(result.maxLeverage)
    /\ Normal(result.theoreticalMaxLeverage)
    /\ Normal(Div(locals.allowedLoss, inputs.marginCapital))

\* C27, amended: when the products allowedLoss * entryPrice and
\* marginCapital * priceDelta and the quotients maxLeverage,
\* theoreticalMaxLeverage and allowedLoss / marginCapital are in the range of
\* the normal doubles, maxLeverage is theoreticalMaxLeverage * allowedLoss /
\* marginCapital up to rounding: with allowedLoss <= marginCapital it is at
\* most theoreticalMaxLeverage * (1 + 2^-50), with allowedLoss >
\* marginCapital * (1 + 2^-50) it is strictly above theoreticalMaxLeverage,
\* and with allowedLoss > marginCapital the result is ready and the only
\* warning possible is takeProfit.  (Closer to allowedLoss = marginCapital
\* than rounding tells apart, either figure can be the larger one; outside
\* the range maxLeverage can be 0, Infinity or NaN and the result not ready.)
C27_LeverageRelationInRange ==
    (Returned /\ ValidMargin /\ LeverageInRange) =>
        /\ Close(result.maxLeverage,
                 Mul(result.theoreticalMaxLeverage,
                     Div(locals.allowedLoss, inputs.marginCapital)))
        /\ Le(locals.allowedLoss, inputs.marginCapital) =>
               Le(result.maxLeverage,
                  Mul(result.theoreticalMaxLeverage, RoundingFactor))
        /\ Gt(locals.allowedLoss, Mul(inputs.marginCapital, RoundingFactor)) =>
               Gt(result.maxLeverage, result.theoreticalMaxLeverage)
        /\ Gt(locals.allowedLoss, inputs.marginCapital) =>
              /\ result.ready = TRUE
              /\ WarningSet \subseteq {"warning.takeProfit"}

\* a risk of 300 percent of a margin of 5000: three times the theoretical
\* leverage, ready, no warning
C27_Witness ==
    /\ Returned
    /\ ValidMargin
    /\ inputs.entryPrice = Num(100)
    /\ inputs.stopPrice = Num(50)
    /\ inputs.marginCapital = Num(5000)
    /\ inputs.riskMode = "percent"
    /\ inputs.riskValue = Num(300)
    /\ locals.allowedLoss = Num(15000)
    /\ result.theoreticalMaxLeverage = Num(2)
    /\ result.maxLeverage = Num(6)
    /\ result.ready = TRUE
    /\ result.warnings = <<>>

\* allowedLoss / lossAtStop * 100
LossRatioPct == Mul(Div(locals.allowedLoss, result.lossAtStop), Num(100))

\* C28 as claimed: every position-mode input that passes both guards has
\* riskPercentOfCapital = allowedLoss / lossAtStop * 100, is ready iff
\* riskPercentOfCapital >= 100, and when the take-profit metrics are present
\* has expectedReturnPct = 100 * riskRewardRatio.
C28_PositionRatiosAlways ==
    (Returned /\ ValidPosition) =>
        /\ result.riskPercentOfCapital = LossRatioPct
        /\ result.ready <=> Ge(result.riskPercentOfCapital, Num(100))
        /\ TakeProfitComputed =>
               result.expectedReturnPct = Mul(Num(100), result.riskRewardRatio)

\* the quotients and products behind expectedReturnPct and riskRewardRatio
\* are normal doubles
ReturnInRange ==
    /\ Normal(result.lossAtStop)
    /\ Normal(Div(result.priceDelta, inputs.entryPrice))
    /\ Normal(Div(ProfitDeltaRaw, inputs.entryPrice))
    /\ Normal(result.expectedProfit)
    /\ Normal(Div(result.expectedProfit, result.lossAtStop))
    /\ Normal(result.riskRewardRatio)

\* C28, amended: every position-mode input that passes both guards has
\* riskPercentOfCapital = allowedLoss / lossAtStop * 100 when lossAtStop is
\* not 0, and then is ready iff riskPercentOfCapital >= 100; when lossAtStop
\* underflowed to 0, riskPercentOfCapital is undefined and the result is
\* ready.  When the take-profit metrics are present and the quotients and
\* products behind them are in the range of the normal doubles,
\* expectedReturnPct is 100 * riskRewardRatio up to rounding (the two are
\* equal in exact arithmetic).
C28_PositionRatios ==
    (Returned /\ ValidPosition) =>
        /\ result.riskPercentOfCapital =
               IF result.lossAtStop = Zero THEN Undef ELSE LossRatioPct
        /\ result.lossAtStop # Zero =>
               (result.ready <=> Ge(result.riskPercentOfCapital, Num(100)))
        /\ result.lossAtStop = Zero => result.ready = TRUE
        /\ (TakeProfitComputed /\ ReturnInRange) =>
               Close(result.expectedReturnPct,
                     Mul(Num(100), result.riskRewardRatio))

\* a Long of 600 from 100 with the stop at 50 and the take-profit at 200:
\* the loss at the stop is the 300 allowed, the profit twice that
C28_Witness ==
    /\ Returned
    /\ ValidPosition
    /\ inputs.entryPrice = Num(100)
    /\ inputs.stopPrice = Num(50)
    /\ inputs.takeProfit = Num(200)
    /\ inputs.positionSize = Num(600)
    /\ locals.allowedLoss = Num(300)
    /\ result.riskPercentOfCapital = Num(100)
    /\ result.ready = TRUE
    /\ result.riskRewardRatio = Num(2)
    /\ result.expectedReturnPct = Num(200)

\* C29: the priceDelta == 0 check never fires: no result has the warning
\* invalidStop (no call returns at line 72), because finite positive
\* entryPrice # stopPrice always give |entryPrice - stopPrice| > 0, down to
\* two neighbouring subnormal doubles.
C29_InvalidStopUnreachable ==
    Returned =>
        /\ "warning.invalidStop" \notin WarningSet
        /\ locals.exit # 72
        /\ PricesDistinct =>
              /\ Gt(Abs(Sub(inputs.entryPrice, inputs.stopPrice)), Zero)
              /\ Gt(result.priceDelta, Zero)

\* the two smallest doubles as prices: their difference is Number.MIN_VALUE
C29_Witness ==
    /\ Returned
    /\ inputs.entryPrice = MinValue
    /\ inputs.stopPrice = TwoMinValue
    /\ result.priceDelta = MinValue
    /\ result.direction = "Short"
    /\ locals.exit \notin {55, 60, 72}

\* the render of the page has a ready calculation and non-zero parsed prices
PageReady ==
    /\ calculation(page).ready
    /\ ~Falsy(parseNumeric(page.entryInput))
    /\ ~Falsy(parseNumeric(page.stopInput))

\* the step issues an insert into trade_entries
InsertIssued == Len(page'.requests) > Len(page.requests)

\* the step leaves the inserts as they are and does not show saving
NothingSent == page'.requests = page.requests /\ page'.saveState # "saving"

\* the step is a click on save; a click changes saveState, to
\* unauthenticated, error or saving, and the inserts only
SaveClicked ==
    /\ page'.saveState \in {"unauthenticated", "error", "saving"}
    /\ page' = [page EXCEPT !.saveState = page'.saveState,
                            !.requests = page'.requests]
    /\ HandleSaveTrade

\* C30: in every sequence of edits of the inputs, changes of the session
\* and clicks on save, a step issues an insert only from a render with a
\* session, a ready calculation and non-zero entry and stop prices; a click
\* on save without a session sets saveState to unauthenticated, a click
\* with a session and a calculation that is not ready (or a zero price)
\* sets it to error, and neither click issues an insert or sets saveState
\* to saving
C30_SaveGuard ==
    [][/\ InsertIssued => page.session /\ PageReady
       /\ SaveClicked /\ ~(page.session /\ PageReady)
              => /\ page'.saveState = IF page.session THEN "error"
                                      ELSE "unauthenticated"
                 /\ NothingSent]_vars

\* two inserts of a Long from 63250.1 are awaiting their answers: after
\* the first click on save a click on the logout button put saveState back
\* to idle and a second click on save issued the second insert; then the
\* entry price was cleared and a click on save, with the session still
\* there, was refused with error
C30_Witness ==
    /\ page.mounted
    /\ Len(page.requests) = 2
    /\ \A i \in 1..2 : /\ page.requests[i].entry_price = ToDouble(1, 632501, 10, 0)
                       /\ page.requests[i].direction = "Long"
    /\ page.session
    /\ page.entryInput = <<>>
    /\ page.saveState = "error"
====
